---- MODULE Spec2Model ----
(***************************************************************************)
(* Funds-movement core of the banking backend (src/server.js): the User    *)
(* collection with its embedded accounts, the Transaction collection (the  *)
(* ledger), and the request handlers that change them.  Every handler is a *)
(* process that takes one step per database round trip; handlers that open *)
(* a mongoose session run their reads and writes in a database transaction *)
(* (snapshot reads, buffered writes, write conflicts, all-or-nothing        *)
(* commit), the others read and write the collections directly.            *)
(* Money is counted in whole currency units.                               *)
(***************************************************************************)
EXTENDS Integers, Sequences, FiniteSets, TLC

\* ---------------------------------------------------------------- bounds
MaxReq == 4
MaxAdmin == 1
MaxShort == 1
MaxTx == 2
MaxSuffix == 3
MaxDeposits == 1
MaxRegistrations == 2
MaxTasks == 1

\* ------------------------------------------------------ program constants
InitialChecking == 100
InitialSavings == 500
\* the number of the first deposit id, DEP-1000
FirstDepositIdNum == 1000
\* the least length of the notes of a rejection
MinNotes == 5
\* the attempt ceiling of generateUniqueAccountDetails
MAX_ATTEMPTS == 10

Procs == {1, 2}
UserIds == {"A", "B"}
Currencies == {"USD", "EUR"}
AccountTypes == {"Checking", "Savings"}
NoAcct == 0

allowedStatuses == {"Pending", "Processing", "Approved", "Successful",
                    "Delivered", "Refunded", "Failed", "Declined"}
reversalStatuses == {"Refunded", "Failed", "Declined"}
completionStatus == "Successful"

\* The first digit of an account number codes the account type
\* (1 = Checking, 5 = Savings); the rest is the time seed plus random digits.
typePrefix(accountType) ==
    IF accountType = "Checking" THEN 1 ELSE IF accountType = "Savings" THEN 5 ELSE 9

generateAccountDetails(currencyCode, accountType, initialBalance, n) ==
    [currencyCode |-> currencyCode,
     accountNumber |-> typePrefix(accountType) * 10 + n,
     balance |-> initialBalance,
     accountType |-> accountType]

InitialBalance(accountType) ==
    IF accountType = "Checking" THEN InitialChecking ELSE InitialSavings

AllAcctNums == {typePrefix(t) * 10 + n : t \in AccountTypes, n \in 1..MaxSuffix}

\* bcrypt: the stored hash is not the PIN, compare() re-hashes the candidate.
Hash(pin) == <<"bcrypt", pin>>
bcryptCompare(pin, hash) == Hash(pin) = hash

\* /^\d{4}$/ on the PINs the model submits.
IsFourDigits(pin) == pin \in {"1234", "4321"}
Pins == {"", "12", "1234", "4321"}

\* transferType.toLowerCase().includes('internal') on the types the model submits.
TransferTypes == {"", "Internal Transfer", "Transfer between own accounts",
                  "Wire Transfer (Domestic)"}
IncludesInternal(transferType) == transferType \in {"Internal Transfer"}

VARIABLES
    users,      \* User collection: user id -> document
    txs,        \* Transaction collection: sequence of documents, index = _id
    proc,       \* per handler process: position and locals
    txn,        \* per handler process: its open database transaction
    last,       \* the response most recently sent
    nreq,       \* requests received so far: all, and those that manage users
    moved,      \* per ledger row: what status transitions have paid out on it
    deposits,   \* CheckDeposit collection: sequence of documents, oldest first
    credits,    \* per check deposit: how many times a review has paid it out
    tasks,      \* per handler process: the post-commit work it has started
    effects     \* the audit entries and emails attempted, with their outcome

vars == <<users, txs, proc, txn, last, nreq, moved, deposits, credits, tasks, effects>>

NoUser == [state |-> "none", accounts |-> <<>>, blocked |-> FALSE,
           currency |-> "none", transferPinHash |-> <<>>]

Idle == [pc |-> "idle"]

NoTxn == [active |-> FALSE, users |-> <<>>, txs |-> <<>>, ins |-> <<>>,
          wU |-> {}, wT |-> {}, dirtyU |-> {}, dirtyT |-> {}]

\* a handler's database session: whether it was started, where its
\* transaction stands and how many times it was ended
NoSession == [started |-> FALSE, state |-> "none", ended |-> 0]

NoLast == [op |-> "none", code |-> 0, kind |-> "", f |-> <<>>, mutated |-> FALSE,
           session |-> NoSession]

\* ------------------------------------------------------------ documents
Live(us, u) == us[u].state = "live"

AcctIdx(user, accountNumber) ==
    {i \in 1..Len(user.accounts) : user.accounts[i].accountNumber = accountNumber}

HasAcct(user, accountNumber) == AcctIdx(user, accountNumber) # {}

\* user.accounts.find(a => a.accountNumber === accountNumber): first match
FindAcct(user, accountNumber) ==
    user.accounts[CHOOSE i \in AcctIdx(user, accountNumber) :
                     \A j \in AcctIdx(user, accountNumber) : i <= j]

\* User.findOne({'accounts.accountNumber': n}): the users holding that number
Holders(us, accountNumber) ==
    {u \in UserIds : Live(us, u) /\ HasAcct(us[u], accountNumber)}

\* the positional update 'accounts.$.balance' on the first matching element
SetBalance(user, accountNumber, newBalance) ==
    LET k == CHOOSE i \in AcctIdx(user, accountNumber) :
                 \A j \in AcctIdx(user, accountNumber) : i <= j
    IN [user EXCEPT !.accounts[k].balance = newBalance]

BalanceOf(us, accountNumber) ==
    LET u == CHOOSE h \in Holders(us, accountNumber) : TRUE
    IN FindAcct(us[u], accountNumber).balance

\* ------------------------------------------------- database transactions
\* session.startTransaction() followed by the first read: the snapshot
StartTxn == [active |-> TRUE, users |-> users, txs |-> txs, ins |-> <<>>,
             wU |-> {}, wT |-> {}, dirtyU |-> {}, dirtyT |-> {}]

UserWriteConflictNever(p, u) == FALSE

\* A write in a transaction fails with a WriteConflict when the document was
\* changed after the snapshot or is being written by another open transaction.
UserWriteConflict(p, u) ==
    \/ u \in txn[p].dirtyU
    \/ \E q \in Procs \ {p} : txn[q].active /\ u \in txn[q].wU

TxWriteConflict(p, i) ==
    \/ i \in txn[p].dirtyT
    \/ \E q \in Procs \ {p} : txn[q].active /\ i \in txn[q].wT

\* the unique index on Transaction.referenceId, checked at insert time
RefTaken(p, referenceId) ==
    \/ \E i \in 1..Len(txs) : txs[i].referenceId = referenceId
    \/ \E q \in Procs : txn[q].active /\
          \E i \in 1..Len(txn[q].ins) : txn[q].ins[i].referenceId = referenceId

\* a write outside any transaction waits for open transactions on the document
UserWritable(u) == \A q \in Procs : txn[q].active => u \notin txn[q].wU

\* what the other open transactions learn from a committed write
Dirtied(p, us, ts) ==
    [q \in Procs |->
        IF q = p THEN NoTxn
        ELSE IF txn[q].active
             THEN [txn[q] EXCEPT !.dirtyU = @ \cup us, !.dirtyT = @ \cup ts]
             ELSE txn[q]]

DirtiedKeep(p, us) ==
    [q \in Procs |->
        IF q # p /\ txn[q].active
        THEN [txn[q] EXCEPT !.dirtyU = @ \cup us]
        ELSE txn[q]]

\* session.commitTransaction(): the buffered writes become visible at once
CommitUsers(p) ==
    [u \in UserIds |-> IF u \in txn[p].wU THEN txn[p].users[u] ELSE users[u]]

CommitTxs(p) ==
    [i \in 1..Len(txs) |-> IF i \in txn[p].wT THEN txn[p].txs[i] ELSE txs[i]]
        \o txn[p].ins

\* session.abortTransaction(): the buffered writes are dropped
Abort(p) == [txn EXCEPT ![p] = NoTxn]

\* `TXN-${Date.now()}-${generateRandomNumber(10)}` and the other generated
\* reference ids: a value no committed or buffered row carries
FreshRef(p) ==
    <<CHOOSE n \in 1..(2 * MaxTx + 2) :
        /\ ~RefTaken(p, <<n>>)
        /\ \A m \in 1..(n - 1) : RefTaken(p, <<m>>)>>

\* `${referenceId}-CR`
CreditRef(referenceId) == Append(referenceId, "CR")

\* The ledger is capped at MaxTx rows: a handler that will insert a row
\* starts only when there is room for it.  Handlers under way hold a place
\* for the reference id they are going to insert.
Places == {proc[q].place : q \in {x \in Procs : proc[x].pc # "idle"}} \ {<<>>}
RoomFor(place) == Len(txs) + Cardinality(Places \cup {place}) <= MaxTx

\* mongoose.startSession() and session.startTransaction()
startSession == [started |-> TRUE, state |-> "open", ended |-> 0]

\* session.abortTransaction(); on a transaction no longer open it throws
\* and the handlers swallow that
abortTransaction(session) ==
    IF session.state = "open" THEN [session EXCEPT !.state = "aborted"] ELSE session

\* session.commitTransaction()
commitTransaction(session) ==
    IF session.state = "open" THEN [session EXCEPT !.state = "committed"] ELSE session

\* session.endSession()
endSession(session) == [session EXCEPT !.ended = @ + 1]

\* what the transfer handler has done with its session when it answers: the
\* 400s come before the session, the early returns abort and return, the
\* success path commits and ends, the catch block aborts and ends
TransferSession(code, kind) ==
    IF code = 400 THEN NoSession
    ELSE IF kind \in {"nouser", "pin", "policy", "nosource", "funds"}
    THEN abortTransaction(startSession)
    ELSE IF code = 202 THEN endSession(commitTransaction(startSession))
    ELSE endSession(abortTransaction(startSession))

\* the same for the balance adjustment: the session starts after the
\* validation, the two early returns abort and return
AdjustSession(code, kind) ==
    IF kind \in {"missing", "amount", "type"} THEN NoSession
    ELSE IF kind \in {"notfound", "funds"} THEN abortTransaction(startSession)
    ELSE IF code = 200 THEN endSession(commitTransaction(startSession))
    ELSE endSession(abortTransaction(startSession))

\* the same for the status change: every path after the validation runs the
\* finally block; the no-change answer commits
StatusSession(code, kind) ==
    IF code = 400 THEN NoSession
    ELSE IF code = 200 THEN endSession(commitTransaction(startSession))
    ELSE endSession(abortTransaction(startSession))

\* the same for the mock generator and the completion route: the session
\* starts first, every answer but the success aborts, finally ends it
GenerateSession(code, kind) ==
    IF code \in {200, 201} THEN endSession(commitTransaction(startSession))
    ELSE endSession(abortTransaction(startSession))

\* the session of the handler that answers; the other handlers start none
SessionOf(op, code, kind) ==
    IF op = "transfer" THEN TransferSession(code, kind)
    ELSE IF op = "adjust" THEN AdjustSession(code, kind)
    ELSE IF op = "status" THEN StatusSession(code, kind)
    ELSE IF op \in {"generate", "complete"} THEN GenerateSession(code, kind)
    ELSE NoSession

Respond(op, code, kind, f) ==
    [op |-> op, code |-> code, kind |-> kind, f |-> f, mutated |-> FALSE,
     session |-> SessionOf(op, code, kind)]

\* ---------------------------------------------------------------- Init
Registered(currency, pin, n) ==
    [state |-> "live",
     accounts |-> <<generateAccountDetails(currency, "Checking", InitialChecking, n),
                    generateAccountDetails(currency, "Savings", InitialSavings, n)>>,
     blocked |-> FALSE, currency |-> currency, transferPinHash |-> Hash(pin)]

Suffix(u) == IF u = "A" THEN 1 ELSE 2

AcctNo(accountType, u) == typePrefix(accountType) * 10 + Suffix(u)

\* The database after the registration of the users A and B.
Init ==
    /\ users = [u \in UserIds |-> Registered("USD", "1234", Suffix(u))]
    /\ txs = <<>>
    /\ nreq = [total |-> 0, admin |-> 0, short |-> 0]
    /\ moved = [i \in 1..(MaxTx + 1) |-> [restored |-> 0, credited |-> 0]]
    /\ proc = [p \in Procs |-> Idle]
    /\ txn = [p \in Procs |-> NoTxn]
    /\ last = NoLast
    /\ deposits = <<>>
    /\ credits = [d \in 1..MaxDeposits |-> 0]
    /\ tasks = [p \in Procs |-> <<>>]
    /\ effects = {}

\* the handler returns; the response records whether it changed the database
Finish(p, response) ==
    /\ proc' = [proc EXCEPT ![p] = Idle]
    /\ last' = [response EXCEPT !.mutated = (users' # users \/ txs' # txs)]

\* a request arrives at an idle handler
B2N(b) == IF b THEN 1 ELSE 0

Receive(p) ==
    /\ proc[p].pc = "idle"
    /\ nreq.total < MaxReq
    /\ UNCHANGED <<moved, deposits, credits, tasks, effects>>

\* the request is counted; one answered before any write counts as short too
Counted(short) ==
    /\ short => nreq.short < MaxShort
    /\ nreq' = [nreq EXCEPT !.total = @ + 1, !.short = @ + B2N(short)]

\* a request that manages users; it counts twice against the request budget
ReceiveAdmin(p) ==
    /\ proc[p].pc = "idle"
    /\ nreq.total + 1 < MaxReq /\ nreq.admin < MaxAdmin
    /\ nreq' = [nreq EXCEPT !.total = @ + 2, !.admin = @ + 1]
    /\ UNCHANGED <<moved, deposits, credits, tasks, effects>>

\* ------------------------------------------ POST /api/client/transfer
TransferFacts(valid, userFound, pinOk, blocked, srcFound, enough) ==
    [valid |-> valid, userFound |-> userFound, pinOk |-> pinOk,
     blocked |-> blocked, srcFound |-> srcFound, enough |-> enough]

PolicyBlocksNever(user) == FALSE

\* 3.5 the block policy: (user.transferMessage || {}).isActive === true
PolicyBlocks(user) == user.blocked

ZeroBalanceBreachNever(newBalance) == FALSE

\* the zero-balance floor: if (newBalance < 0)
ZeroBalanceBreach(newBalance) == newBalance < 0

\* the same checks, the block policy looked at before the PIN
TransferCheckPolicyFirst(user, sourceAccountNumber, transactionAmount, transferType, destinationAccountNumber, transferPin) ==
    IF sourceAccountNumber = NoAcct \/ transactionAmount = 0
          \/ transferType = "" \/ transferPin = ""
    THEN [code |-> 400, kind |-> "missing"]
    ELSE IF transactionAmount <= 0 THEN [code |-> 400, kind |-> "amount"]
    ELSE IF ~IsFourDigits(transferPin) THEN [code |-> 400, kind |-> "pinformat"]
    ELSE IF IncludesInternal(transferType) /\ destinationAccountNumber = NoAcct
    THEN [code |-> 400, kind |-> "nodestination"]
    ELSE IF user.state # "live" THEN [code |-> 404, kind |-> "nouser"]
    ELSE IF PolicyBlocks(user) THEN [code |-> 409, kind |-> "policy"]
    ELSE IF ~bcryptCompare(transferPin, user.transferPinHash)
    THEN [code |-> 403, kind |-> "pin"]
    ELSE IF ~HasAcct(user, sourceAccountNumber) THEN [code |-> 404, kind |-> "nosource"]
    ELSE IF ZeroBalanceBreach(FindAcct(user, sourceAccountNumber).balance
                                 - transactionAmount)
    THEN [code |-> 409, kind |-> "funds"]
    ELSE [code |-> 0, kind |-> "ok"]

\* the checks made before any write, in the order the handler makes them
TransferCheck(user, sourceAccountNumber, transactionAmount, transferType, destinationAccountNumber, transferPin) ==
    IF sourceAccountNumber = NoAcct \/ transactionAmount = 0
          \/ transferType = "" \/ transferPin = ""
    THEN [code |-> 400, kind |-> "missing"]
    ELSE IF transactionAmount <= 0 THEN [code |-> 400, kind |-> "amount"]
    ELSE IF ~IsFourDigits(transferPin) THEN [code |-> 400, kind |-> "pinformat"]
    ELSE IF IncludesInternal(transferType) /\ destinationAccountNumber = NoAcct
    THEN [code |-> 400, kind |-> "nodestination"]
    ELSE IF user.state # "live" THEN [code |-> 404, kind |-> "nouser"]
    ELSE IF ~bcryptCompare(transferPin, user.transferPinHash)
    THEN [code |-> 403, kind |-> "pin"]
    ELSE IF PolicyBlocks(user) THEN [code |-> 409, kind |-> "policy"]
    ELSE IF ~HasAcct(user, sourceAccountNumber) THEN [code |-> 404, kind |-> "nosource"]
    ELSE IF ZeroBalanceBreach(FindAcct(user, sourceAccountNumber).balance
                                 - transactionAmount)
    THEN [code |-> 409, kind |-> "funds"]
    ELSE [code |-> 0, kind |-> "ok"]

\* the requests the model submits
TransferRequests ==
    {r \in [userId : UserIds,
            sourceAccountNumber : {NoAcct, AcctNo("Checking", "A")},
            transactionAmount : {-40, 0, 40, 150}, transferType : TransferTypes,
            destinationAccountNumber :
                {NoAcct, AcctNo("Checking", "A"), AcctNo("Savings", "A"),
                 AcctNo("Checking", "B")},
            transferPin : Pins] :
        \* a malformed request has one defect, an external one names no account here
        /\ B2N(r.sourceAccountNumber = NoAcct) + B2N(r.transactionAmount <= 0)
              + B2N(r.transferType = "") + B2N(~IsFourDigits(r.transferPin)) <= 1
        /\ ~IncludesInternal(r.transferType) => r.destinationAccountNumber = NoAcct}

TransferBeginWith(p, requests) ==
    /\ Receive(p)
    /\ RoomFor(<<p, "transfer">>)
    /\ \E req \in requests :
        LET user == users[req.userId]
            valid == /\ req.sourceAccountNumber # NoAcct /\ req.transactionAmount > 0
                     /\ req.transferType # "" /\ IsFourDigits(req.transferPin)
                     /\ (IncludesInternal(req.transferType)
                            => req.destinationAccountNumber # NoAcct)
            userFound == user.state = "live"
            pinOk == userFound /\ bcryptCompare(req.transferPin, user.transferPinHash)
            srcFound == userFound /\ HasAcct(user, req.sourceAccountNumber)
            enough == srcFound /\
                FindAcct(user, req.sourceAccountNumber).balance - req.transactionAmount >= 0
            f == TransferFacts(valid, userFound, pinOk, userFound /\ user.blocked,
                               srcFound, enough)
            r == TransferCheck(user, req.sourceAccountNumber, req.transactionAmount,
                               req.transferType, req.destinationAccountNumber,
                               req.transferPin)
        IN IF r.code # 0
           THEN /\ UNCHANGED <<users, txs, txn>>
                /\ Counted(TRUE)
                /\ Finish(p, Respond("transfer", r.code, r.kind, f))
           ELSE /\ proc' = [proc EXCEPT ![p] =
                      [pc |-> "t_debit", place |-> <<p, "transfer">>,
                       userId |-> req.userId,
                       sourceAccount |-> FindAcct(user, req.sourceAccountNumber),
                       transactionAmount |-> req.transactionAmount,
                       newBalance |-> FindAcct(user, req.sourceAccountNumber).balance
                                         - req.transactionAmount,
                       isInternalTransfer |-> IncludesInternal(req.transferType),
                       destinationAccountNumber |-> req.destinationAccountNumber,
                       f |-> f]]
                /\ txn' = [txn EXCEPT ![p] = StartTxn]
                /\ Counted(FALSE)
                /\ UNCHANGED <<users, txs, last>>

TransferBegin(p) == TransferBeginWith(p, TransferRequests)

\* the catch block: abort, end the session, answer 500
TransferThrow(p, kind) ==
    /\ txn' = Abort(p)
    /\ UNCHANGED <<users, txs, nreq, moved, deposits, credits, tasks, effects>>
    /\ Finish(p, Respond("transfer", 500, kind, proc[p].f))

\* the same write without the session: applied to the collection at once
TransferDebitDirect(p) ==
    /\ proc[p].pc = "t_debit"
    /\ LET l == proc[p]
       IN /\ UserWritable(l.userId)
          /\ users' = [users EXCEPT ![l.userId] =
                 SetBalance(@, l.sourceAccount.accountNumber, l.newBalance)]
          /\ txn' = DirtiedKeep(p, {l.userId})
          /\ proc' = [proc EXCEPT ![p].pc = "t_insert"]
          /\ UNCHANGED <<txs, last, nreq, moved, deposits, credits, tasks, effects>>

\* User.updateOne(... $set 'accounts.$.balance' newBalance, {session})
TransferDebit(p) ==
    /\ proc[p].pc = "t_debit"
    /\ LET l == proc[p]
           view == txn[p].users[l.userId]
       IN \/ TransferThrow(p, IF UserWriteConflict(p, l.userId)
                             THEN "conflict" ELSE "fault")
          \/ /\ ~UserWriteConflict(p, l.userId)
             /\ txn' = [txn EXCEPT ![p].users[l.userId] =
                            SetBalance(view, l.sourceAccount.accountNumber, l.newBalance),
                        ![p].wU = @ \cup {l.userId}]
             /\ proc' = [proc EXCEPT ![p].pc = "t_insert"]
             /\ UNCHANGED <<users, txs, last, nreq, moved, deposits, credits, tasks, effects>>

debitAmountUnsigned(transactionAmount) == transactionAmount

\* amount: -transactionAmount, the debit row's amount
debitAmountOf(transactionAmount) == -transactionAmount

\* The post-commit work under way is capped at MaxTasks: a handler whose
\* post-commit work is followed commits only when there is room for it.
RoomForTask(followed) ==
    followed => Len(tasks[1]) + Len(tasks[2]) < MaxTasks

\* the post-commit work of a handler: what it is about and whom it tells
Task(op, transactionId, notify) ==
    [op |-> op, stage |-> IF op = "status" THEN "audit" ELSE "email",
     transactionId |-> transactionId, notify |-> notify]

\* Transaction.create([debit row], {session}), session.commitTransaction(),
\* sendTransferNotification(user.email, ...) started and not awaited when
\* the post-commit work is followed, then the 202 response
TransferInsertWith(p, followed) ==
    /\ proc[p].pc = "t_insert"
    /\ LET l == proc[p]
           row == [userId |-> l.userId,
                   amount |-> debitAmountOf(l.transactionAmount),
                   accountNumber |-> l.sourceAccount.accountNumber,
                   accountType |-> l.sourceAccount.accountType,
                   referenceId |-> FreshRef(p),
                   status |-> "Processing",
                   isInternal |-> l.isInternalTransfer,
                   destinationAccountNumber |-> l.destinationAccountNumber,
                   lastUpdatedByAdmin |-> "none"]
       IN \/ TransferThrow(p, "insertfault")
          \/ /\ RoomForTask(followed)
             /\ users' = CommitUsers(p)
             /\ txs' = CommitTxs(p) \o <<row>>
             /\ txn' = Dirtied(p, txn[p].wU, txn[p].wT)
             /\ tasks' = IF followed
                         THEN [tasks EXCEPT ![p] =
                                  Append(@, Task("transfer", Len(txs') , <<l.userId>>))]
                         ELSE tasks
             /\ UNCHANGED <<nreq, moved, deposits, credits, effects>>
             /\ Finish(p, Respond("transfer", 202, "Processing", l.f))

\* the handler seen from the database: its emails write to no collection
TransferInsert(p) == TransferInsertWith(p, FALSE)

\* --------------------------- PUT /api/transactions/:transactionId/status
StatusInputs == {"", "Bogus", "Processing", "Approved", "Successful",
                 "Delivered", "Refunded", "Failed"}

\* the amount to restore without the look at the current status
accountUpdateAlways(currentStatus, newStatus, amount) ==
    IF newStatus \in reversalStatuses /\ amount < 0 THEN -amount ELSE 0

\* A. the amount a reversal returns to the source account
accountUpdateFor(currentStatus, newStatus, amount) ==
    IF /\ newStatus \in reversalStatuses
       /\ currentStatus # completionStatus /\ currentStatus \notin reversalStatuses
       /\ amount < 0
    THEN -amount ELSE 0

\* B. the transitions that run the credit leg
IsCompletion(currentStatus, newStatus, isInternal) ==
    /\ newStatus \notin reversalStatuses
    /\ newStatus = completionStatus
    /\ currentStatus \in {"Processing", "Approved", "Pending"}
    /\ isInternal

SameStatusNever(currentStatus, newStatus) == FALSE

\* 1.5 the no-change short circuit
SameStatus(currentStatus, newStatus) == currentStatus = newStatus

\* what a request meets: the facts the response is judged by
StatusFacts(found, transaction, newStatus, recipients, holders) ==
    [final |-> found /\ transaction.status \in reversalStatuses \cup {completionStatus}
                     /\ transaction.status # newStatus
                     /\ newStatus \in allowedStatuses,
     same |-> found /\ transaction.status = newStatus,
     completing |-> found /\ IsCompletion(transaction.status, newStatus,
                                          transaction.isInternal),
     hasDestination |-> found /\ transaction.destinationAccountNumber # NoAcct,
     recipient |-> recipients # {},
     reversing |-> found /\ accountUpdateFor(transaction.status, newStatus,
                                             transaction.amount) # 0,
     source |-> holders # {}]

StatusBegin(p) ==
    /\ Receive(p)
    /\ \E transactionId \in 1..(MaxTx + 1), newStatus \in StatusInputs :
        LET found == transactionId <= Len(txs)
            transaction == IF found THEN txs[transactionId]
                           ELSE [status |-> "", isInternal |-> FALSE, amount |-> 0,
                                 destinationAccountNumber |-> NoAcct,
                                 referenceId |-> <<>>, accountNumber |-> NoAcct]
            currentStatus == transaction.status
            completing == IsCompletion(currentStatus, newStatus, transaction.isInternal)
            recipients == Holders(users, transaction.destinationAccountNumber)
            f == StatusFacts(found, transaction, newStatus, recipients,
                             Holders(users, transaction.accountNumber))
            accountUpdate == accountUpdateFor(currentStatus, newStatus, transaction.amount)
            creditRef == CreditRef(transaction.referenceId)
        IN IF newStatus = ""
           THEN /\ UNCHANGED <<users, txs, txn>>
                /\ Counted(TRUE)
                /\ Finish(p, Respond("status", 400, "missing", f))
           ELSE IF newStatus \notin allowedStatuses
           THEN /\ UNCHANGED <<users, txs, txn>>
                /\ Counted(TRUE)
                /\ Finish(p, Respond("status", 400, "invalid", f))
           ELSE IF ~found
           THEN /\ UNCHANGED <<users, txs, txn>>
                /\ Counted(TRUE)
                /\ Finish(p, Respond("status", 404, "notfound", f))
           ELSE IF SameStatus(currentStatus, newStatus)
           THEN /\ UNCHANGED <<users, txs, txn>>
                /\ Counted(TRUE)
                /\ Finish(p, Respond("status", 200, "nochange", f))
           ELSE IF completing /\ transaction.destinationAccountNumber = NoAcct
           THEN /\ UNCHANGED <<users, txs, txn>>
                /\ Counted(TRUE)
                /\ Finish(p, Respond("status", 500, "error", f))
           ELSE IF completing /\ recipients = {}
           THEN /\ UNCHANGED <<users, txs, txn>>
                /\ Counted(TRUE)
                /\ Finish(p, Respond("status", 404, "norecipient", f))
           ELSE /\ completing /\ ~RefTaken(p, creditRef) => RoomFor(creditRef)
                /\ \E userToCredit \in IF completing THEN recipients ELSE {"-"} :
                     proc' = [proc EXCEPT ![p] =
                        [pc |-> IF completing THEN "s_credit"
                                ELSE IF accountUpdate # 0 THEN "s_reverse"
                                ELSE "s_status",
                         place |-> IF completing /\ ~RefTaken(p, creditRef)
                                   THEN creditRef ELSE <<>>,
                         transactionId |-> transactionId,
                         newStatus |-> newStatus,
                         currentStatus |-> currentStatus,
                         transaction |-> transaction,
                         accountUpdate |-> accountUpdate,
                         userToCredit |-> userToCredit,
                         restored |-> 0, credited |-> 0,
                         f |-> f]]
                /\ txn' = [txn EXCEPT ![p] = StartTxn]
                /\ Counted(FALSE)
                /\ UNCHANGED <<users, txs, last>>

\* the catch block: abort and answer 500
StatusThrow(p, kind) ==
    /\ txn' = Abort(p)
    /\ UNCHANGED <<users, txs, nreq, moved, deposits, credits, tasks, effects>>
    /\ Finish(p, Respond("status", 500, kind, proc[p].f))

creditAmountSigned(amount) == amount

\* const creditAmount = Math.abs(amount)
creditAmountOf(amount) == IF amount < 0 THEN -amount ELSE amount

AddBalance(user, accountNumber, delta) ==
    SetBalance(user, accountNumber, FindAcct(user, accountNumber).balance + delta)

\* 2. User.updateOne({_id, 'accounts.accountNumber'}, {$inc: creditAmount}, {session})
StatusCredit(p) ==
    /\ proc[p].pc = "s_credit"
    /\ LET l == proc[p]
           creditAmount == creditAmountOf(l.transaction.amount)
       IN \/ StatusThrow(p, IF UserWriteConflict(p, l.userToCredit)
                             THEN "conflict" ELSE "fault")
          \/ /\ ~UserWriteConflict(p, l.userToCredit)
             /\ txn' = [txn EXCEPT ![p].users[l.userToCredit] =
                            AddBalance(@, l.transaction.destinationAccountNumber,
                                       creditAmount),
                        ![p].wU = @ \cup {l.userToCredit}]
             /\ proc' = [proc EXCEPT ![p].pc = "s_insert", ![p].credited = creditAmount]
             /\ UNCHANGED <<users, txs, last, nreq, moved, deposits, credits, tasks, effects>>

\* the same step on a collection without the unique index on referenceId,
\* the ledger keeping one copy of a reference
StatusInsertUnindexed(p) ==
    /\ proc[p].pc = "s_insert"
    /\ LET l == proc[p]
           t == l.transaction
           destinationAccount ==
               FindAcct(txn[p].users[l.userToCredit], t.destinationAccountNumber)
           row == [userId |-> l.userToCredit,
                   amount |-> creditAmountOf(t.amount),
                   accountNumber |-> t.destinationAccountNumber,
                   accountType |-> destinationAccount.accountType,
                   referenceId |-> CreditRef(t.referenceId),
                   status |-> "Successful",
                   isInternal |-> TRUE,
                   destinationAccountNumber |-> NoAcct,
                   lastUpdatedByAdmin |-> "none"]
       IN \/ StatusThrow(p, "insertfault")
          \/ /\ txn' = [txn EXCEPT ![p].ins =
                            IF RefTaken(p, row.referenceId) THEN @ ELSE Append(@, row)]
             /\ proc' = [proc EXCEPT ![p].pc = "s_status"]
             /\ UNCHANGED <<users, txs, last, nreq, moved, deposits, credits, tasks, effects>>

\* 3. Transaction.create([credit row], {session})
StatusInsert(p) ==
    /\ proc[p].pc = "s_insert"
    /\ LET l == proc[p]
           t == l.transaction
           destinationAccount ==
               FindAcct(txn[p].users[l.userToCredit], t.destinationAccountNumber)
           row == [userId |-> l.userToCredit,
                   amount |-> creditAmountOf(t.amount),
                   accountNumber |-> t.destinationAccountNumber,
                   accountType |-> destinationAccount.accountType,
                   referenceId |-> CreditRef(t.referenceId),
                   status |-> "Successful",
                   isInternal |-> TRUE,
                   destinationAccountNumber |-> NoAcct,
                   lastUpdatedByAdmin |-> "none"]
       IN \/ StatusThrow(p, IF RefTaken(p, row.referenceId)
                             THEN "duplicate" ELSE "insertfault")
          \/ /\ ~RefTaken(p, row.referenceId)
             /\ txn' = [txn EXCEPT ![p].ins = Append(@, row)]
             /\ proc' = [proc EXCEPT ![p].pc = "s_status"]
             /\ UNCHANGED <<users, txs, last, nreq, moved, deposits, credits, tasks, effects>>

\* the same step without the check of the update's result
StatusReverseUnchecked(p) ==
    /\ proc[p].pc = "s_reverse"
    /\ LET l == proc[p]
           holders == Holders(txn[p].users, l.transaction.accountNumber)
       IN \/ /\ holders = {}
             /\ proc' = [proc EXCEPT ![p].pc = "s_status"]
             /\ UNCHANGED <<users, txs, txn, last, nreq, moved, deposits, credits, tasks, effects>>
          \/ \E u \in holders :
             /\ ~UserWriteConflict(p, u)
             /\ txn' = [txn EXCEPT ![p].users[u] =
                            AddBalance(@, l.transaction.accountNumber, l.accountUpdate),
                        ![p].wU = @ \cup {u}]
             /\ proc' = [proc EXCEPT ![p].pc = "s_status",
                                      ![p].restored = l.accountUpdate]
             /\ UNCHANGED <<users, txs, last, nreq, moved, deposits, credits, tasks, effects>>

\* C. User.findOneAndUpdate({"accounts.accountNumber"}, {$inc: accountUpdate}, {session})
StatusReverse(p) ==
    /\ proc[p].pc = "s_reverse"
    /\ LET l == proc[p]
           holders == Holders(txn[p].users, l.transaction.accountNumber)
       IN \/ StatusThrow(p, IF \E u \in holders : UserWriteConflict(p, u)
                             THEN "conflict" ELSE "fault")
          \/ /\ holders = {}
             /\ txn' = Abort(p)
             /\ UNCHANGED <<users, txs, nreq, moved, deposits, credits, tasks, effects>>
             /\ Finish(p, Respond("status", 404, "noaccount", l.f))
          \/ \E u \in holders :
             /\ ~UserWriteConflict(p, u)
             /\ txn' = [txn EXCEPT ![p].users[u] =
                            AddBalance(@, l.transaction.accountNumber, l.accountUpdate),
                        ![p].wU = @ \cup {u}]
             /\ proc' = [proc EXCEPT ![p].pc = "s_status",
                                      ![p].restored = l.accountUpdate]
             /\ UNCHANGED <<users, txs, last, nreq, moved, deposits, credits, tasks, effects>>

NotifyRecipientAlways(transactionIsInternal, newStatus, userToCredit) == transactionIsInternal

\* transactionIsInternal && newStatus === completionStatus && userToCredit
NotifyRecipient(transactionIsInternal, newStatus, userToCredit) ==
    transactionIsInternal /\ newStatus = completionStatus /\ userToCredit # "-"

\* userIdsToNotify: the sender always, the recipient after a credit leg
userIdsToNotify(transactionUserId, transactionIsInternal, newStatus, userToCredit) ==
    <<transactionUserId>> \o
        (IF NotifyRecipient(transactionIsInternal, newStatus, userToCredit)
         THEN <<userToCredit>> ELSE <<>>)

\* 5. Transaction.findByIdAndUpdate(id, {$set: {status}}, {session}),
\* 6. session.commitTransaction(), 7. the 200 response, and the post-commit
\* work started and not awaited when it is followed
StatusWriteWith(p, followed) ==
    /\ proc[p].pc = "s_status"
    /\ LET l == proc[p]
       IN \/ StatusThrow(p, IF TxWriteConflict(p, l.transactionId)
                             THEN "conflict" ELSE "writefault")
          \/ /\ ~TxWriteConflict(p, l.transactionId)
             /\ RoomForTask(followed)
             /\ users' = CommitUsers(p)
             /\ txs' = [i \in 1..Len(txs) |->
                           IF i = l.transactionId
                           THEN [txs[i] EXCEPT !.status = l.newStatus,
                                               !.lastUpdatedByAdmin = "admin"]
                           ELSE txs[i]] \o txn[p].ins
             /\ txn' = Dirtied(p, txn[p].wU, {l.transactionId})
             /\ moved' = [moved EXCEPT
                   ![l.transactionId].restored = @ + l.restored,
                   ![l.transactionId].credited = @ + l.credited]
             /\ tasks' = IF followed
                         THEN [tasks EXCEPT ![p] =
                                  Append(@, Task("status", l.transactionId,
                                      userIdsToNotify(l.transaction.userId,
                                                      l.transaction.isInternal,
                                                      l.newStatus, l.userToCredit)))]
                         ELSE tasks
             /\ UNCHANGED <<nreq, deposits, credits, effects>>
             /\ Finish(p, Respond("status", 200, l.newStatus, l.f))

\* the handler seen from the database: its post-commit work writes to no
\* collection
StatusWrite(p) == StatusWriteWith(p, FALSE)

\* A. logStatusChange(...) of a post-commit task: it returns or it throws,
\* and the catch around it lets the task go on to the emails
PostAudit(p) ==
    /\ UNCHANGED <<users, txs, proc, txn, last, nreq, moved, deposits, credits>>
    /\ \E k \in 1..Len(tasks[p]), ok \in BOOLEAN :
        LET t == tasks[p][k]
        IN /\ t.stage = "audit"
           /\ effects' = effects \cup
                 {[kind |-> "audit", transactionId |-> t.transactionId,
                   to |-> "-", ok |-> ok]}
           /\ tasks' = [tasks EXCEPT ![p][k].stage = "email"]

\* the sequence without its k-th element
Without(seq, k) == SubSeq(seq, 1, k - 1) \o SubSeq(seq, k + 1, Len(seq))

\* B. the next email of a post-commit task: User.findById(userId) for a
\* status change, then the send; a send that throws ends the loop
PostEmail(p) ==
    /\ UNCHANGED <<users, txs, proc, txn, last, nreq, moved, deposits, credits>>
    /\ \E k \in 1..Len(tasks[p]), ok \in BOOLEAN :
        LET t == tasks[p][k]
            userId == Head(t.notify)
            user == users[userId]
            sent == t.op = "transfer" \/ user.state = "live"
            left == IF ok \/ ~sent THEN Tail(t.notify) ELSE <<>>
        IN /\ t.stage = "email"
           /\ ~sent => ok
           /\ effects' = IF sent
                         THEN effects \cup
                                {[kind |-> "email", transactionId |-> t.transactionId,
                                  to |-> userId, ok |-> ok]}
                         ELSE effects
           /\ tasks' = [tasks EXCEPT ![p] =
                           IF left = <<>> THEN Without(@, k)
                           ELSE [@ EXCEPT ![k].notify = left]]

\* ------------------------------------------------ POST /api/funds/transfer
AdjustRequests ==
    {r \in [userId : UserIds, accountNumber : {NoAcct, AcctNo("Checking", "A")},
            type : {"credit", "debit", "refund"}, amount : {0, 40, 150}] :
        r.type = "credit" => r.amount # 150}

finalSignedAmountUnsigned(type, amount) == amount

\* finalSignedAmount: positive for a credit, negative for a debit
finalSignedAmountOf(type, amount) == IF type = "credit" THEN amount ELSE -amount

AdjustBegin(p) ==
    /\ Receive(p)
    /\ RoomFor(<<p, "adjust">>)
    /\ \E req \in AdjustRequests :
        LET user == users[req.userId]
            found == user.state = "live" /\ HasAcct(user, req.accountNumber)
            account == FindAcct(user, req.accountNumber)
            f == [type |-> req.type, found |-> found,
                  enough |-> found /\ account.balance >= req.amount,
                  valid |-> /\ req.accountNumber # NoAcct /\ req.amount > 0
                            /\ req.type \in {"credit", "debit"},
                  blocked |-> user.state = "live" /\ user.blocked]
        IN IF req.accountNumber = NoAcct \/ req.amount = 0
           THEN /\ UNCHANGED <<users, txs, txn>>
                /\ Counted(TRUE)
                /\ Finish(p, Respond("adjust", 400, "missing", f))
           ELSE IF req.amount <= 0
           THEN /\ UNCHANGED <<users, txs, txn>>
                /\ Counted(TRUE)
                /\ Finish(p, Respond("adjust", 400, "amount", f))
           ELSE IF req.type # "credit" /\ req.type # "debit"
           THEN /\ UNCHANGED <<users, txs, txn>>
                /\ Counted(TRUE)
                /\ Finish(p, Respond("adjust", 400, "type", f))
           ELSE IF ~found
           THEN /\ UNCHANGED <<users, txs, txn>>
                /\ Counted(TRUE)
                /\ Finish(p, Respond("adjust", 404, "notfound", f))
           ELSE IF req.type = "debit" /\ account.balance < req.amount
           THEN /\ UNCHANGED <<users, txs, txn>>
                /\ Counted(TRUE)
                /\ Finish(p, Respond("adjust", 400, "funds", f))
           ELSE /\ proc' = [proc EXCEPT ![p] =
                      [pc |-> "a_write", place |-> <<p, "adjust">>,
                       userId |-> req.userId, account |-> account,
                       newBalance |-> IF req.type = "credit"
                                      THEN account.balance + req.amount
                                      ELSE account.balance - req.amount,
                       finalSignedAmount |-> finalSignedAmountOf(req.type, req.amount),
                       f |-> f]]
                /\ txn' = [txn EXCEPT ![p] = StartTxn]
                /\ Counted(FALSE)
                /\ UNCHANGED <<users, txs, last>>

AdjustThrow(p, kind) ==
    /\ txn' = Abort(p)
    /\ UNCHANGED <<users, txs, nreq, moved, deposits, credits, tasks, effects>>
    /\ Finish(p, Respond("adjust", 500, kind, proc[p].f))

\* 4. User.updateOne(... $set 'accounts.$.balance' newBalance, {session})
AdjustWrite(p) ==
    /\ proc[p].pc = "a_write"
    /\ LET l == proc[p]
       IN \/ AdjustThrow(p, IF UserWriteConflict(p, l.userId)
                             THEN "conflict" ELSE "fault")
          \/ /\ ~UserWriteConflict(p, l.userId)
             /\ txn' = [txn EXCEPT ![p].users[l.userId] =
                            SetBalance(@, l.account.accountNumber, l.newBalance),
                        ![p].wU = @ \cup {l.userId}]
             /\ proc' = [proc EXCEPT ![p].pc = "a_insert"]
             /\ UNCHANGED <<users, txs, last, nreq, moved, deposits, credits, tasks, effects>>

\* 4.5 Transaction.create([row], {session}), commit, the 200 response
AdjustInsert(p) ==
    /\ proc[p].pc = "a_insert"
    /\ LET l == proc[p]
           row == [userId |-> l.userId,
                   amount |-> l.finalSignedAmount,
                   accountNumber |-> l.account.accountNumber,
                   accountType |-> l.account.accountType,
                   referenceId |-> FreshRef(p),
                   status |-> "Processing",
                   isInternal |-> FALSE,
                   destinationAccountNumber |-> NoAcct,
                   lastUpdatedByAdmin |-> "none"]
       IN \/ AdjustThrow(p, "insertfault")
          \/ /\ users' = CommitUsers(p)
             /\ txs' = CommitTxs(p) \o <<row>>
             /\ txn' = Dirtied(p, txn[p].wU, txn[p].wT)
             /\ UNCHANGED <<nreq, moved, deposits, credits, tasks, effects>>
             /\ Finish(p, Respond("adjust", 200, l.f.type, l.f))

\* ------------------------------------------------ DELETE /api/users/:id
Deleted == [NoUser EXCEPT !.state = "deleted"]

DeleteUser(p) ==
    /\ ReceiveAdmin(p)
    /\ \E id \in UserIds :
        IF users[id].state # "live"
        THEN /\ UNCHANGED <<users, txs, txn>>
             /\ Finish(p, Respond("delete", 404, "notfound", <<>>))
        ELSE /\ UserWritable(id)
             /\ users' = [users EXCEPT ![id] = Deleted]
             /\ txn' = DirtiedKeep(p, {id})
             /\ UNCHANGED txs
             /\ Finish(p, Respond("delete", 200, "deleted", <<>>))

\* --------------------------------------------------- PUT /api/users/:id
UpdateRequests ==
    {r \in [id : UserIds, currency : {""} \cup Currencies,
            transferMessage : {"none", "active", "short"}] :
        \* one change per request
        r.currency = "" \/ r.transferMessage = "none"}

\* user.accounts.find(a => a.accountType === type)?.balance || 0.00
BalanceOfType(user, accountType) ==
    LET S == {i \in 1..Len(user.accounts) : user.accounts[i].accountType = accountType}
    IN IF S = {} THEN 0
       ELSE user.accounts[CHOOSE i \in S : \A j \in S : i <= j].balance

\* User.findById(id) and the changes computed from the document read
UpdateRead(p) ==
    /\ ReceiveAdmin(p)
    /\ \E req \in UpdateRequests, n1 \in 1..MaxSuffix, n2 \in 1..MaxSuffix :
        \* both candidates of one request carry the same digits here
        /\ n1 = n2
        /\ LET user == users[req.id]
               regenerate == req.currency # "" /\ req.currency # user.currency
               accounts ==
                   IF regenerate
                   THEN <<generateAccountDetails(req.currency, "Checking",
                                                 BalanceOfType(user, "Checking"), n1),
                          generateAccountDetails(req.currency, "Savings",
                                                 BalanceOfType(user, "Savings"), n2)>>
                   ELSE <<>>
           IN /\ ~regenerate => n1 = 1
              /\ IF user.state # "live"
                 THEN /\ UNCHANGED <<users, txs, txn>>
                      /\ Finish(p, Respond("update", 404, "notfound", <<>>))
                 ELSE IF req.transferMessage = "short"
                 THEN /\ UNCHANGED <<users, txs, txn>>
                      /\ Finish(p, Respond("update", 400, "message", <<>>))
                 ELSE IF req.currency = "" /\ req.transferMessage = "none"
                 THEN /\ UNCHANGED <<users, txs, txn>>
                      /\ Finish(p, Respond("update", 200, "nochange", <<>>))
                 ELSE /\ proc' = [proc EXCEPT ![p] =
                            [pc |-> "u_write", place |-> <<>>, id |-> req.id,
                             regenerate |-> regenerate, accounts |-> accounts,
                             currency |-> req.currency,
                             transferMessage |-> req.transferMessage]]
                      /\ UNCHANGED <<users, txs, txn, last>>

\* the unique index on accounts.accountNumber: another document holds the number
NumberTakenNever(id, accounts) == FALSE

NumberTaken(id, accounts) ==
    \E i \in 1..Len(accounts) :
        Holders(users, accounts[i].accountNumber) \ {id} # {}

ApplyChanges(user, l) ==
    [user EXCEPT
        !.accounts = IF l.regenerate THEN l.accounts ELSE @,
        !.currency = IF l.currency # "" THEN l.currency ELSE @,
        !.blocked = IF l.transferMessage = "active" THEN TRUE
                    ELSE IF l.transferMessage = "inactive" THEN FALSE ELSE @]

\* 7. User.findByIdAndUpdate(id, {$set: changes})
UpdateWrite(p) ==
    /\ proc[p].pc = "u_write"
    /\ UNCHANGED <<txs, nreq, moved, deposits, credits, tasks, effects>>
    /\ LET l == proc[p]
       IN IF users[l.id].state # "live"
          THEN /\ UNCHANGED <<users, txn>>
               /\ Finish(p, Respond("update", 500, "vanished", <<>>))
          ELSE IF NumberTaken(l.id, l.accounts)
          THEN /\ UNCHANGED <<users, txn>>
               /\ Finish(p, Respond("update", 409, "duplicate", <<>>))
          ELSE /\ UserWritable(l.id)
               /\ users' = [users EXCEPT ![l.id] = ApplyChanges(@, l)]
               /\ txn' = DirtiedKeep(p, {l.id})
               /\ Finish(p, Respond("update", 200, "updated", <<>>))

\* ------------------------------- POST /api/users/:id/transactions/generate
GenerateRequests ==
    [id : UserIds, numTransactions : {0, 1}, rawAmount : {150}, isCredit : BOOLEAN]

\* user.accounts.find(acc => acc.accountType === 'Checking') || user.accounts[0]
TargetAccount(user) ==
    LET S == {i \in 1..Len(user.accounts) : user.accounts[i].accountType = "Checking"}
    IN IF S = {} THEN user.accounts[1]
       ELSE user.accounts[CHOOSE i \in S : \A j \in S : i <= j]

GenerateBegin(p) ==
    /\ ReceiveAdmin(p)
    /\ RoomFor(<<p, "generate">>)
    /\ \E req \in GenerateRequests :
        LET user == users[req.id]
        IN IF req.numTransactions < 1 \/ req.numTransactions > 500
           THEN /\ UNCHANGED <<users, txs, txn>>
                /\ Finish(p, Respond("generate", 400, "count", <<>>))
           ELSE IF user.state # "live"
           THEN /\ UNCHANGED <<users, txs, txn>>
                /\ Finish(p, Respond("generate", 404, "notfound", <<>>))
           ELSE /\ proc' = [proc EXCEPT ![p] =
                      [pc |-> "g_save", place |-> <<p, "generate">>,
                       targetUserId |-> req.id,
                       targetAccount |-> TargetAccount(user),
                       finalAmount |-> IF req.isCredit THEN req.rawAmount
                                       ELSE -req.rawAmount]]
                /\ txn' = [txn EXCEPT ![p] = StartTxn]
                /\ UNCHANGED <<users, txs, last>>

\* Transaction.insertMany(rows, {session}); balance += netChange;
\* user.save({session}); commit; the 201 response
GenerateSave(p) ==
    /\ proc[p].pc = "g_save"
    /\ LET l == proc[p]
           row == [userId |-> l.targetUserId,
                   amount |-> l.finalAmount,
                   accountNumber |-> l.targetAccount.accountNumber,
                   accountType |-> l.targetAccount.accountType,
                   referenceId |-> FreshRef(p),
                   status |-> "Processing",
                   isInternal |-> FALSE,
                   destinationAccountNumber |-> NoAcct,
                   lastUpdatedByAdmin |-> "none"]
           netChange == row.amount
       IN \/ /\ txn' = Abort(p)
             /\ UNCHANGED <<users, txs, nreq, moved, deposits, credits, tasks, effects>>
             /\ Finish(p, Respond("generate", 500, "error", <<>>))
          \/ /\ ~UserWriteConflict(p, l.targetUserId)
             /\ users' = [users EXCEPT ![l.targetUserId] =
                   AddBalance(txn[p].users[l.targetUserId],
                              l.targetAccount.accountNumber, netChange)]
             /\ txs' = CommitTxs(p) \o <<row>>
             /\ txn' = Dirtied(p, {l.targetUserId}, {})
             /\ UNCHANGED <<nreq, moved, deposits, credits, tasks, effects>>
             /\ Finish(p, Respond("generate", 201, "generated", <<>>))

\* ------------------------------------------- POST /api/client/check-deposits
\* String.prototype.toUpperCase and toLowerCase on the strings that occur
ToUpperCase(str) ==
    CASE str = "usd" -> "USD"
      [] str = "eur" -> "EUR"
      [] OTHER -> str

ToLowerCase(str) ==
    CASE str = "Pending" -> "pending"
      [] str = "Approved" -> "approved"
      [] str = "Declined" -> "declined"
      [] str = "Completed" -> "completed"
      [] str = "Failed" -> "failed"
      [] OTHER -> str

\* String.prototype.trim on a string given as its sequence of characters
RECURSIVE TrimStart(_)
TrimStart(str) ==
    IF str # <<>> /\ Head(str) = " " THEN TrimStart(Tail(str)) ELSE str

RECURSIVE TrimEnd(_)
TrimEnd(str) ==
    IF str # <<>> /\ str[Len(str)] = " "
    THEN TrimEnd(SubSeq(str, 1, Len(str) - 1)) ELSE str

Trim(str) == TrimEnd(TrimStart(str))

\* the enum of checkDepositSchema.status
depositStatusEnum == {"Pending", "Approved", "Declined"}

\* a request arrives at an idle handler of the check deposit routes
ReceiveDeposit(p) ==
    /\ proc[p].pc = "idle"
    /\ nreq.total < MaxReq
    /\ UNCHANGED <<users, txs, txn, moved, tasks, effects>>

DepositRequests ==
    [userId : {"A"}, amount : {0, 50}, currencyCode : {"", "usd", "EUR"}]

\* 1.-3. validation, CheckDeposit.findOne().sort({createdAt: -1}), the next id
DepositBegin(p) ==
    /\ ReceiveDeposit(p)
    /\ Len(deposits) < MaxDeposits
    /\ UNCHANGED <<deposits, credits, tasks, effects>>
    /\ \E req \in DepositRequests :
        IF req.amount = 0 \/ req.currencyCode = ""
        THEN /\ Counted(TRUE)
             /\ Finish(p, Respond("deposit", 400, "missing", <<>>))
        ELSE LET lastDeposit == deposits[Len(deposits)]
                 nextDepositIdNum == IF deposits # <<>>
                                     THEN lastDeposit.depositId + 1
                                     ELSE FirstDepositIdNum
             IN /\ Counted(FALSE)
                /\ proc' = [proc EXCEPT ![p] =
                       [pc |-> "d_save", place |-> <<>>,
                        newDeposit |-> [depositId |-> nextDepositIdNum,
                                        userId |-> req.userId,
                                        amount |-> req.amount,
                                        currencyCode |-> ToUpperCase(req.currencyCode),
                                        status |-> "Pending"]]]
                /\ UNCHANGED last

\* the unique index on CheckDeposit.depositId
DepositIdx(depositId) ==
    {d \in 1..Len(deposits) : deposits[d].depositId = depositId}

DepositIdTakenNever(depositId) == FALSE

DepositIdTaken(depositId) == DepositIdx(depositId) # {}

\* 4. newDeposit.save() and the 201 response
DepositSave(p) ==
    /\ proc[p].pc = "d_save"
    /\ UNCHANGED <<users, txs, txn, nreq, moved, credits, tasks, effects>>
    /\ LET l == proc[p]
       IN IF DepositIdTaken(l.newDeposit.depositId)
          THEN /\ UNCHANGED deposits
               /\ Finish(p, Respond("deposit", 500, "duplicate", <<>>))
          ELSE \/ /\ UNCHANGED deposits
                  /\ Finish(p, Respond("deposit", 500, "fault", <<>>))
               \/ /\ deposits' = Append(deposits, l.newDeposit)
                  /\ Finish(p, Respond("deposit", 201, "Pending", <<>>))

\* --------------------------------------- PUT /api/check-deposits/:depositId
ReviewStatuses == {"", "Approved", "Completed", "completed", "Declined", "Failed"}

ReviewNotes ==
    {<<>>, <<" ", "n", "o", " ", " ", " ">>, <<"b", "o", "u", "n", "c", "e">>}

ReviewRequests ==
    {r \in [depositId : {FirstDepositIdNum, FirstDepositIdNum + MaxDeposits},
            status : ReviewStatuses, adminNotes : ReviewNotes] :
        \* an unknown deposit is asked for in one way
        r.depositId = FirstDepositIdNum + MaxDeposits =>
            (r.status = "Approved" /\ r.adminNotes = <<>>)}

isRejectedOrFailed(newStatus) == newStatus \in {"failed", "declined"}

NotesTooShortNever(trimmedNotes) == FALSE

\* trimmedNotes.length < 5
NotesTooShort(trimmedNotes) == Len(trimmedNotes) < MinNotes

\* deposit.status !== 'completed' && newStatus === 'completed'
CreditDue(depositStatus, newStatus) ==
    depositStatus # "completed" /\ newStatus = "completed"

\* 1.-2. validation, the update payload and CheckDeposit.findOne({depositId})
ReviewBegin(p) ==
    /\ ReceiveDeposit(p)
    /\ UNCHANGED <<deposits, credits, tasks, effects>>
    /\ \E req \in ReviewRequests :
        LET newStatus == ToLowerCase(req.status)
            trimmedNotes == Trim(req.adminNotes)
            found == DepositIdx(req.depositId) # {}
            d == CHOOSE i \in DepositIdx(req.depositId) : TRUE
            f == [status |-> req.status, adminNotes |-> req.adminNotes,
                  trimmedNotes |-> trimmedNotes, found |-> found,
                  was |-> IF found THEN deposits[d].status ELSE "",
                  deposit |-> IF found THEN d ELSE 0]
        IN IF req.status = ""
           THEN /\ Counted(TRUE)
                /\ Finish(p, Respond("review", 400, "status", f))
           ELSE IF isRejectedOrFailed(newStatus) /\ NotesTooShort(trimmedNotes)
           THEN /\ Counted(TRUE)
                /\ Finish(p, Respond("review", 400, "notes", f))
           ELSE IF ~found
           THEN /\ Counted(TRUE)
                /\ Finish(p, Respond("review", 404, "notfound", f))
           ELSE /\ Counted(FALSE)
                /\ proc' = [proc EXCEPT ![p] =
                       [pc |-> IF CreditDue(deposits[d].status, newStatus)
                               THEN "r_user" ELSE "r_update",
                        place |-> <<>>, depositId |-> req.depositId,
                        deposit |-> deposits[d], newStatus |-> newStatus,
                        k |-> 0, balance |-> 0, f |-> f]]
                /\ UNCHANGED last

\* user.accounts.find(a => a.currencyCode === deposit.currencyCode)
CurrencyIdx(user, currencyCode) ==
    {i \in 1..Len(user.accounts) : user.accounts[i].currencyCode = currencyCode}

\* 3. User.findById(deposit.userId), the target account and the new balance
ReviewUser(p) ==
    /\ proc[p].pc = "r_user"
    /\ UNCHANGED <<users, txs, txn, nreq, moved, deposits, credits, tasks, effects>>
    /\ LET l == proc[p]
           user == users[l.deposit.userId]
           S == CurrencyIdx(user, l.deposit.currencyCode)
           k == CHOOSE i \in S : \A j \in S : i <= j
       IN IF user.state # "live"
          THEN Finish(p, Respond("review", 500, "nouser", l.f))
          ELSE IF S = {}
          THEN Finish(p, Respond("review", 500, "noaccount", l.f))
          ELSE /\ proc' = [proc EXCEPT ![p].pc = "r_save", ![p].k = k,
                              ![p].balance = user.accounts[k].balance + l.deposit.amount]
               /\ UNCHANGED last

\* user.save(): the balance computed from the document read is written,
\* outside any transaction
ReviewSave(p) ==
    /\ proc[p].pc = "r_save"
    /\ UNCHANGED <<txs, nreq, moved, deposits, tasks, effects>>
    /\ LET l == proc[p]
           u == l.deposit.userId
       IN \/ /\ UNCHANGED <<users, txn, credits, tasks, effects>>
             /\ Finish(p, Respond("review", 500, "fault", l.f))
          \/ /\ users[u].state = "live"
             /\ UserWritable(u)
             /\ users' = [users EXCEPT ![u].accounts[l.k].balance = l.balance]
             /\ txn' = DirtiedKeep(p, {u})
             /\ credits' = [credits EXCEPT ![l.f.deposit] = @ + 1]
             /\ proc' = [proc EXCEPT ![p].pc = "r_update"]
             /\ UNCHANGED last

\* 4. CheckDeposit.findOneAndUpdate({depositId}, {$set: changes},
\*    {runValidators: true}) and the 200 response
ReviewUpdate(p) ==
    /\ proc[p].pc = "r_update"
    /\ UNCHANGED <<users, txs, txn, nreq, moved, credits, tasks, effects>>
    /\ LET l == proc[p]
       IN IF l.newStatus \notin depositStatusEnum
          THEN /\ UNCHANGED deposits
               /\ Finish(p, Respond("review", 500, "validation", l.f))
          ELSE IF DepositIdx(l.depositId) = {}
          THEN /\ UNCHANGED deposits
               /\ Finish(p, Respond("review", 500, "vanished", l.f))
          ELSE /\ deposits' = [deposits EXCEPT
                      ![CHOOSE i \in DepositIdx(l.depositId) : TRUE].status = l.newStatus]
               /\ Finish(p, Respond("review", 200, l.newStatus, l.f))


\* --------------------------------------------------------- POST /api/users
RegisterRequests ==
    [userIdName : UserIds, currency : {"", "USD"}, transferPin : {"12", "1234"}]

\* the validation of the request and the two bcrypt hashes
RegisterBegin(p) ==
    /\ Receive(p)
    /\ nreq.total < MaxRegistrations
    /\ UNCHANGED <<users, txs, txn>>
    /\ \E req \in RegisterRequests :
        LET f == [userIdName |-> req.userIdName]
        IN IF req.currency = ""
           THEN /\ Counted(TRUE)
                /\ Finish(p, Respond("register", 400, "missing", f))
           ELSE IF ~IsFourDigits(req.transferPin)
           THEN /\ Counted(TRUE)
                /\ Finish(p, Respond("register", 400, "pin", f))
           ELSE /\ Counted(FALSE)
                /\ proc' = [proc EXCEPT ![p] =
                       [pc |-> "g_checking", place |-> <<>>,
                        userIdName |-> req.userIdName, currency |-> req.currency,
                        transferPinHash |-> Hash(req.transferPin),
                        attempts |-> 0, slept |-> 0,
                        newAccountNumber |-> NoAcct,
                        checkingAccount |-> <<>>, savingsAccount |-> <<>>, f |-> f]]
                /\ UNCHANGED last

existingUserNever(us, newAccountNumber) == FALSE

\* User.findOne({'accounts.accountNumber': newAccountNumber}) found a user
existingUser(us, newAccountNumber) == Holders(us, newAccountNumber) # {}

\* One turn of the loop of generateUniqueAccountDetails: a candidate is
\* generated and looked up; it is returned when no user holds it, else the
\* attempt is counted and the call sleeps 50 * attempts ms; after the last
\* attempt the call throws and the handler answers 500.
generateUniqueAccountDetails(p) ==
    /\ proc[p].pc \in {"g_checking", "g_savings"}
    /\ UNCHANGED <<users, txs, txn, nreq, moved, deposits, credits, tasks, effects>>
    /\ \E n \in 1..MaxSuffix :
        LET l == proc[p]
            type == IF l.pc = "g_checking" THEN "Checking" ELSE "Savings"
            accountDetails ==
                generateAccountDetails(l.currency, type, InitialBalance(type), n)
            newAccountNumber == accountDetails.accountNumber
            attempts == l.attempts + 1
        IN IF ~existingUser(users, newAccountNumber)
           THEN /\ proc' = [proc EXCEPT ![p] =
                     IF l.pc = "g_checking"
                     THEN [l EXCEPT !.pc = "g_savings", !.attempts = 0, !.slept = 0,
                                    !.newAccountNumber = NoAcct,
                                    !.checkingAccount = accountDetails]
                     ELSE [l EXCEPT !.pc = "reg_save",
                                    !.newAccountNumber = newAccountNumber,
                                    !.savingsAccount = accountDetails]]
                /\ UNCHANGED last
           ELSE IF attempts < MAX_ATTEMPTS
           THEN /\ proc' = [proc EXCEPT ![p].attempts = attempts,
                                        ![p].slept = 50 * attempts,
                                        ![p].newAccountNumber = newAccountNumber]
                /\ UNCHANGED last
           ELSE Finish(p, Respond("register", 500, "unique", l.f))

\* newUser.save() under the unique indexes, and the 201 response
RegisterSave(p) ==
    /\ proc[p].pc = "reg_save"
    /\ UNCHANGED <<txs, nreq, moved, deposits, credits, tasks, effects>>
    /\ LET l == proc[p]
           accounts == <<l.checkingAccount, l.savingsAccount>>
       IN IF users[l.userIdName].state = "live" \/ NumberTaken(l.userIdName, accounts)
          THEN /\ UNCHANGED <<users, txn>>
               /\ Finish(p, Respond("register", 409, "duplicate", l.f))
          ELSE \/ /\ UNCHANGED <<users, txn>>
                  /\ Finish(p, Respond("register", 500, "fault", l.f))
               \/ /\ users' = [users EXCEPT ![l.userIdName] =
                         [state |-> "live", accounts |-> accounts, blocked |-> FALSE,
                          currency |-> l.currency,
                          transferPinHash |-> l.transferPinHash]]
                  /\ UNCHANGED txn
                  /\ Finish(p, Respond("register", 201, "created", l.f))


Next ==
    \E p \in Procs :
        \/ TransferBegin(p)
        \/ TransferDebit(p)
        \/ TransferInsert(p)
        \/ StatusBegin(p)
        \/ StatusCredit(p)
        \/ StatusInsert(p)
        \/ StatusReverse(p)
        \/ StatusWrite(p)
        \/ AdjustBegin(p)
        \/ AdjustWrite(p)
        \/ AdjustInsert(p)
        \/ DeleteUser(p)
        \/ UpdateRead(p)
        \/ UpdateWrite(p)
        \/ GenerateBegin(p)
        \/ GenerateSave(p)

Spec == Init /\ [][Next]_vars

\* the check deposit routes beside the transfers and the balance adjustments
DepositTransferRequests ==
    {[userId |-> "A", sourceAccountNumber |-> AcctNo("Checking", "A"),
      transactionAmount |-> 40, transferType |-> "Internal Transfer",
      destinationAccountNumber |-> AcctNo("Savings", "B"), transferPin |-> "1234"]}

NextDeposit ==
    \E p \in Procs :
        \/ DepositBegin(p)
        \/ DepositSave(p)
        \/ ReviewBegin(p)
        \/ ReviewUser(p)
        \/ ReviewSave(p)
        \/ ReviewUpdate(p)
        \/ TransferBeginWith(p, DepositTransferRequests)
        \/ TransferDebit(p)
        \/ TransferInsert(p)
        \/ AdjustBegin(p)
        \/ AdjustWrite(p)
        \/ AdjustInsert(p)

SpecDeposit == Init /\ [][NextDeposit]_vars

\* the registrations, from an empty User collection
InitRegister ==
    /\ users = [u \in UserIds |-> NoUser]
    /\ txs = <<>>
    /\ nreq = [total |-> 0, admin |-> 0, short |-> 0]
    /\ moved = [i \in 1..(MaxTx + 1) |-> [restored |-> 0, credited |-> 0]]
    /\ proc = [p \in Procs |-> Idle]
    /\ txn = [p \in Procs |-> NoTxn]
    /\ last = NoLast
    /\ deposits = <<>>
    /\ credits = [d \in 1..MaxDeposits |-> 0]
    /\ tasks = [p \in Procs |-> <<>>]
    /\ effects = {}

RegisterStep(p) ==
    \/ RegisterBegin(p)
    \/ generateUniqueAccountDetails(p)
    \/ RegisterSave(p)

NextRegister == \E p \in Procs : RegisterStep(p)

\* every pending lookup, sleep and save of a handler completes in the end
SpecRegister ==
    /\ InitRegister /\ [][NextRegister]_vars
    /\ \A p \in Procs : WF_vars(generateUniqueAccountDetails(p) \/ RegisterSave(p))

\* the registrations beside the currency changes of the admin
NextAccounts ==
    \E p \in Procs :
        \/ RegisterBegin(p)
        \/ generateUniqueAccountDetails(p)
        \/ RegisterSave(p)
        \/ UpdateRead(p)
        \/ UpdateWrite(p)

SpecAccounts == InitRegister /\ [][NextAccounts]_vars

\* the transfers and the status changes with their post-commit work
NotifyRequests ==
    {[userId |-> "A", sourceAccountNumber |-> AcctNo("Checking", "A"),
      transactionAmount |-> 40, transferType |-> t,
      destinationAccountNumber |-> AcctNo("Savings", "B"), transferPin |-> pin] :
        t \in {"Transfer between own accounts", "Internal Transfer"},
        pin \in {"1234", "4321"}}

NextNotify ==
    \E p \in Procs :
        \/ TransferBeginWith(p, NotifyRequests)
        \/ TransferDebit(p)
        \/ TransferInsertWith(p, TRUE)
        \/ StatusBegin(p)
        \/ StatusCredit(p)
        \/ StatusInsert(p)
        \/ StatusReverse(p)
        \/ StatusWriteWith(p, TRUE)
        \/ PostAudit(p)
        \/ PostEmail(p)

SpecNotify == Init /\ [][NextNotify]_vars

\* ------------------------------------ PUT /api/transactions/:id/complete
\* debitTx.details: transactionSchema declares no path named details, so a
\* document read through the model carries none, whatever was written
Details(debitTx) ==
    [defined |-> FALSE, transactionClass |-> "", destinationAccountNumber |-> NoAcct]

CompleteFacts(found, transactionId, debitTx) ==
    [found |-> found, transactionId |-> transactionId, was |-> debitTx.status,
     isInternal |-> debitTx.isInternal, amount |-> debitTx.amount]

\* the whole handler: the reads in the session, the three early answers, and
\* after them the credit leg, the status write and the commit
CompleteRoute(p) ==
    /\ Receive(p)
    /\ \E transactionId \in 1..(MaxTx + 1) :
        LET found == transactionId <= Len(txs)
            debitTx == IF found THEN txs[transactionId]
                       ELSE [status |-> "", isInternal |-> FALSE, amount |-> 0,
                             destinationAccountNumber |-> NoAcct, userId |-> "A",
                             referenceId |-> <<>>, accountNumber |-> NoAcct]
            details == Details(debitTx)
            f == CompleteFacts(found, transactionId, debitTx)
            transferAmount == creditAmountOf(debitTx.amount)
            internal == details.transactionClass = "INTERNAL_DEBIT"
            userToNotify == users[debitTx.userId]
            destinationAccountNumber == details.destinationAccountNumber
            creditRow == [userId |-> debitTx.userId,
                          amount |-> transferAmount,
                          accountNumber |-> destinationAccountNumber,
                          accountType |-> FindAcct(userToNotify,
                                             destinationAccountNumber).accountType,
                          referenceId |-> CreditRef(debitTx.referenceId),
                          status |-> "Successful",
                          isInternal |-> FALSE,
                          destinationAccountNumber |-> NoAcct,
                          lastUpdatedByAdmin |-> "none"]
        IN IF ~found
           THEN /\ UNCHANGED <<users, txs, txn>>
                /\ Counted(TRUE)
                /\ Finish(p, Respond("complete", 404, "notfound", f))
           ELSE IF debitTx.status = "Successful" \/ debitTx.status = "Failed"
           THEN /\ UNCHANGED <<users, txs, txn>>
                /\ Counted(TRUE)
                /\ Finish(p, Respond("complete", 409, "finalized", f))
           ELSE IF debitTx.status # "Processing" \/ ~details.defined
           THEN /\ UNCHANGED <<users, txs, txn>>
                /\ Counted(TRUE)
                /\ Finish(p, Respond("complete", 409, "notready", f))
           ELSE IF internal /\ ~Live(users, debitTx.userId)
           THEN /\ UNCHANGED <<users, txs, txn>>
                /\ Counted(TRUE)
                /\ Finish(p, Respond("complete", 404, "nouser", f))
           ELSE IF internal /\ AcctIdx(userToNotify, destinationAccountNumber) = {}
           THEN /\ UNCHANGED <<users, txs, txn>>
                /\ Counted(TRUE)
                /\ Finish(p, Respond("complete", 404, "noaccount", f))
           ELSE /\ internal => Len(txs) < MaxTx
                /\ users' = IF internal
                            THEN [users EXCEPT ![debitTx.userId] =
                                     AddBalance(@, destinationAccountNumber,
                                                transferAmount)]
                            ELSE users
                /\ txs' = [i \in 1..Len(txs) |->
                              IF i = transactionId
                              THEN [txs[i] EXCEPT !.status = "Successful"]
                              ELSE txs[i]]
                          \o (IF internal THEN <<creditRow>> ELSE <<>>)
                /\ UNCHANGED txn
                /\ Counted(FALSE)
                /\ Finish(p, Respond("complete", 200, "Successful", f))

\* A's transfers of 40 to B's Savings account, internal and by wire
CompleteRequests ==
    {[userId |-> "A", sourceAccountNumber |-> AcctNo("Checking", "A"),
      transactionAmount |-> 40, transferType |-> t,
      destinationAccountNumber |-> AcctNo("Savings", "B"), transferPin |-> "1234"] :
        t \in {"Internal Transfer", "Wire Transfer"}}

NextComplete ==
    \E p \in Procs :
        \/ TransferBeginWith(p, CompleteRequests)
        \/ TransferDebit(p)
        \/ TransferInsert(p)
        \/ StatusBegin(p)
        \/ StatusCredit(p)
        \/ StatusInsert(p)
        \/ StatusReverse(p)
        \/ StatusWrite(p)
        \/ CompleteRoute(p)

SpecComplete == Init /\ [][NextComplete]_vars

\* ================================================================ properties
Rows == 1..Len(txs)
Abs(n) == IF n < 0 THEN -n ELSE n
AllBalances ==
    {users[u].accounts[k].balance :
        u \in {v \in UserIds : Live(users, v)}, k \in 1..2}

\* C1: a status request that names a different, allowed status for a
\* transaction whose status is Successful, Refunded, Failed or Declined is
\* not accepted and changes neither a status, a balance nor the ledger.
C1_TerminalIsFinal ==
    (last.op = "status" /\ last.f.final) => (last.code # 200 /\ ~last.mutated)

\* C3: a transfer request that is well formed, names a live user and an
\* account of that user, carries the right PIN, meets no block and asks for
\* more than the balance is answered 409 insufficient funds and changes
\* neither a balance nor the ledger.
C3_InsufficientFunds ==
    (/\ last.op = "transfer"
     /\ last.f.valid /\ last.f.userFound /\ last.f.pinOk /\ ~last.f.blocked
     /\ last.f.srcFound /\ ~last.f.enough)
    => (last.code = 409 /\ last.kind = "funds" /\ ~last.mutated)

C3_Witness ==
    /\ last.op = "transfer" /\ last.kind = "funds" /\ last.f.valid /\ last.f.pinOk
    /\ ~last.f.enough /\ txs = <<>>
    /\ BalanceOf(users, AcctNo("Checking", "A")) = InitialChecking

\* C4: whatever status requests have been served on a debit row, the amount
\* its reversals have put back on the source account is at most abs(amount).
C4_RestoredAtMostOnce ==
    \A i \in Rows : txs[i].amount < 0 => moved[i].restored <= Abs(txs[i].amount)

\* C5: whatever status requests have been served on a row, completions have
\* credited its destination at most once, and the ledger holds at most one
\* row whose reference is the row's reference followed by -CR.
C5_CreditedAtMostOnce ==
    \A i \in Rows :
        /\ moved[i].credited <= Abs(txs[i].amount)
        /\ Cardinality({j \in Rows :
                txs[j].referenceId = CreditRef(txs[i].referenceId)}) <= 1

C5_Witness ==
    /\ last.op = "status" /\ last.kind = "duplicate" /\ last.f.completing
    /\ \E i \in Rows :
         /\ moved[i].credited = Abs(txs[i].amount) /\ txs[i].status = "Processing"
         /\ \E j \in Rows : txs[j].referenceId = CreditRef(txs[i].referenceId)

\* C6: in every reachable state every account balance is at least zero
\* (the overdraft limit of every account is zero).
C6_BalanceFloor == \A b \in AllBalances : b >= 0

\* C9: a status request that names the status the transaction already has
\* is answered 200 as a no-change and leaves every document as it was: no
\* balance moves, no row is added, the row itself is not written.
C9_SameStatusNoOp ==
    (last.op = "status" /\ last.f.same)
    => (last.code = 200 /\ last.kind = "nochange" /\ ~last.mutated)

C9_Witness ==
    /\ last.op = "status" /\ last.f.same /\ last.kind = "nochange"
    /\ \E i \in Rows : txs[i].status = "Successful" /\ moved[i].credited > 0
    /\ Len(txs) = 2

\* -------------------------------------------------- steps the claims speak of
\* process p takes a step
Steps(p) == proc'[p] # proc[p]

\* p's transfer commits: the step that sends the 202
TransferCommit(p) ==
    proc[p].pc = "t_insert" /\ Steps(p) /\ last'.code = 202

\* p's balance adjustment commits
AdjustCommit(p) ==
    proc[p].pc = "a_insert" /\ Steps(p) /\ last'.code = 200

\* p's status change commits
StatusCommit(p) ==
    proc[p].pc = "s_status" /\ Steps(p) /\ last'.code = 200

\* p's status change commits and is the completion of an internal debit
CompletionCommit(p) ==
    StatusCommit(p) /\ proc[p].f.completing /\ proc[p].transaction.amount < 0

\* the balances found under an account number, with user and position
BalancesAt(us, accountNumber) ==
    {<<x[1], x[2], us[x[1]].accounts[x[2]].balance>> :
        x \in {y \in UserIds \X (1..2) :
                 /\ Live(us, y[1])
                 /\ us[y[1]].accounts[y[2]].accountNumber = accountNumber}}

\* every balance under the account number has moved by delta, and there is one
MovedBy(accountNumber, delta) ==
    /\ BalancesAt(users, accountNumber) # {}
    /\ BalancesAt(users', accountNumber)
         = {<<x[1], x[2], x[3] + delta>> : x \in BalancesAt(users, accountNumber)}

\* the credit leg of p's completion: one more row, the -CR row with the
\* opposite amount, and the destination balance raised by it
CreditLeg(p) ==
    LET t == proc[p].transaction
        n == Len(txs')
    IN /\ n = Len(txs) + 1
       /\ txs'[n].referenceId = CreditRef(t.referenceId)
       /\ txs'[n].amount = Abs(t.amount)
       /\ txs'[proc[p].transactionId].amount + txs'[n].amount = 0
       /\ txs'[n].accountNumber = t.destinationAccountNumber
       /\ MovedBy(t.destinationAccountNumber, Abs(t.amount))

SourceKept(p) ==
    BalancesAt(users', proc[p].transaction.accountNumber)
        = BalancesAt(users, proc[p].transaction.accountNumber)

\* the debit leg of p's transfer: the source balance falls by the amount
DebitLeg(p) ==
    MovedBy(proc[p].sourceAccount.accountNumber, -proc[p].transactionAmount)

\* C2 as stated: the commit of a transfer lowers the source balance by the
\* amount; the completion of an internal debit in Processing, Approved or
\* Pending adds exactly one credit row of the opposite amount, raises the
\* destination balance by it and leaves the source balance alone.
C2_CompletionAsStated ==
    [][\A p \in Procs :
          /\ TransferCommit(p) => DebitLeg(p)
          /\ CompletionCommit(p) => (CreditLeg(p) /\ SourceKept(p))]_vars

\* C2, amended: the same, the source balance being left alone when the
\* destination account is another account than the source account.
C2_Completion ==
    [][\A p \in Procs :
          /\ TransferCommit(p) => DebitLeg(p)
          /\ CompletionCommit(p) =>
                /\ CreditLeg(p)
                /\ proc[p].transaction.destinationAccountNumber
                      # proc[p].transaction.accountNumber => SourceKept(p)]_vars

C2_Witness ==
    /\ last.op = "status" /\ last.kind = "Successful" /\ last.f.completing
    /\ Len(txs) = 2 /\ txs[1].status = "Successful" /\ txs[1].amount = -40
    /\ txs[2].amount = 40 /\ txs[2].referenceId = CreditRef(txs[1].referenceId)
    /\ BalanceOf(users, AcctNo("Checking", "A")) = InitialChecking - 40
    /\ BalanceOf(users, AcctNo("Checking", "B")) = InitialChecking + 40

InFlight(p) ==
    proc[p].pc \in {"t_debit", "t_insert", "s_credit", "s_insert", "s_reverse", "s_status"}

\* what a committed unit has written, all of it in the one step
WholeUnit(p) ==
    LET l == proc[p]
    IN IF l.pc = "t_insert"
       THEN /\ DebitLeg(p)
            /\ Len(txs') = Len(txs) + 1
            /\ txs'[Len(txs')].amount = -l.transactionAmount
       ELSE /\ txs'[l.transactionId].status = l.newStatus
            /\ l.f.completing =>
                  /\ Len(txs') = Len(txs) + 1
                  /\ MovedBy(l.transaction.destinationAccountNumber,
                             Abs(l.transaction.amount))
            /\ l.accountUpdate # 0 =>
                  MovedBy(l.transaction.accountNumber, l.accountUpdate)

\* C7: a step of a transfer or of a status change either commits the whole
\* unit (balance write, ledger row, status write together) or leaves the
\* collections as they were; a unit that fails after its balance write,
\* at the ledger insert or at a later write, leaves them as they were.
C7_AllOrNothing ==
    [][\A p \in Procs :
          (InFlight(p) /\ Steps(p)) =>
              IF proc'[p].pc = "idle" /\ last'.code < 400
              THEN WholeUnit(p)
              ELSE users' = users /\ txs' = txs]_vars

C7_Witness ==
    /\ last.op = "status" /\ last.kind = "insertfault" /\ last.code = 500
    /\ last.f.completing /\ ~last.mutated
    /\ Len(txs) = 1 /\ txs[1].status = "Processing"
    /\ txs[1].destinationAccountNumber = AcctNo("Checking", "B")
    /\ BalanceOf(users, AcctNo("Checking", "B")) = InitialChecking

\* C8: a transfer or a balance adjustment that commits moves the balance by
\* its own signed amount from the balance committed just before it, so no
\* committed change is overwritten by a balance computed from an older read.
C8_NoLostUpdate ==
    [][\A p \in Procs :
          /\ TransferCommit(p) => DebitLeg(p)
          /\ AdjustCommit(p) =>
                MovedBy(proc[p].account.accountNumber,
                        proc[p].finalSignedAmount)]_vars

C8_Witness ==
    /\ last.op = "adjust" /\ last.kind = "conflict" /\ last.code = 500
    /\ Len(txs) = 1 /\ txs[1].amount = -40 /\ txs[1].isInternal
    /\ BalanceOf(users, AcctNo("Checking", "A")) = InitialChecking - 40

\* C10: a completion of an internal transaction whose destination account
\* number no user holds is answered 404, and so is a reversal whose source
\* account number no user holds (unless the database fails first); either
\* way no status, no balance and no ledger row changes.
C10_MissingAccount ==
    /\ (/\ last.op = "status" /\ last.f.completing
         /\ last.f.hasDestination /\ ~last.f.recipient)
       => (last.code = 404 /\ ~last.mutated)
    /\ (last.op = "status" /\ last.f.reversing /\ ~last.f.source)
       => (~last.mutated /\ (last.code = 404 \/ last.kind = "fault"))

C10_Witness ==
    /\ last.op = "status" /\ last.kind = "noaccount" /\ last.code = 404
    /\ last.f.reversing /\ ~last.f.source
    /\ Len(txs) = 1 /\ txs[1].status = "Processing" /\ moved[1].restored = 0

C10_WitnessRecipient ==
    /\ last.op = "status" /\ last.kind = "norecipient" /\ last.code = 404
    /\ Len(txs) = 1 /\ txs[1].status = "Processing" /\ moved[1].credited = 0

\* what a committed transfer has done: the source balance is down by the
\* amount and is the balance the response reports, no other account moved
\* unless it is the destination, the ledger has one more row, the debit row
TransferEffect(p) ==
    LET l == proc[p]
        n == Len(txs')
        src == l.sourceAccount.accountNumber
    IN /\ DebitLeg(p)
       /\ \A x \in BalancesAt(users', src) : x[3] = l.newBalance
       /\ \A a \in AllAcctNums \ {src, l.destinationAccountNumber} :
             BalancesAt(users', a) = BalancesAt(users, a)
       /\ n = Len(txs) + 1
       /\ \A i \in 1..Len(txs) : txs'[i] = txs[i]
       /\ txs'[n].amount = -l.transactionAmount
       /\ txs'[n].accountNumber = src
       /\ txs'[n].status = "Processing"
       /\ txs'[n].isInternal = l.isInternalTransfer
       /\ txs'[n].destinationAccountNumber = l.destinationAccountNumber
       /\ last'.op = "transfer" /\ last'.kind = "Processing"

DestinationKept(p) ==
    BalancesAt(users', proc[p].destinationAccountNumber)
        = BalancesAt(users, proc[p].destinationAccountNumber)

\* C11 as stated: a transfer that commits lowers the source balance by the
\* amount, adds exactly one row (amount = -amount, Processing, with isInternal
\* and destinationAccountNumber), reports Processing and the new balance, and
\* leaves the destination balance alone, adding no credit row.
C11_TransferAsStated ==
    [][\A p \in Procs :
          TransferCommit(p) => (TransferEffect(p) /\ DestinationKept(p))]_vars

\* C11, amended: the same, the destination balance being left alone when
\* the destination account is another account than the source account.
C11_Transfer ==
    [][\A p \in Procs :
          TransferCommit(p) =>
             /\ TransferEffect(p)
             /\ proc[p].destinationAccountNumber # proc[p].sourceAccount.accountNumber
                   => DestinationKept(p)]_vars

C11_Witness ==
    /\ last.op = "transfer" /\ last.code = 202 /\ last.kind = "Processing"
    /\ Len(txs) = 1 /\ txs[1].amount = -40 /\ txs[1].isInternal
    /\ txs[1].status = "Processing"
    /\ txs[1].destinationAccountNumber = AcctNo("Checking", "B")
    /\ BalanceOf(users, AcctNo("Checking", "A")) = InitialChecking - 40
    /\ BalanceOf(users, AcctNo("Checking", "B")) = InitialChecking

\* ------------------------------------------- the transfer-to-B scenario
\* A submits 40 from Checking (100) to B's Savings (500), under the type the
\* client is offered for it and under a type that names itself internal.
ScenarioRequests ==
    {[userId |-> "A", sourceAccountNumber |-> AcctNo("Checking", "A"),
      transactionAmount |-> 40, transferType |-> t,
      destinationAccountNumber |-> AcctNo("Savings", "B"), transferPin |-> "1234"] :
        t \in {"Transfer between own accounts", "Internal Transfer"}}

NextScenario ==
    \E p \in Procs :
        \/ TransferBeginWith(p, ScenarioRequests)
        \/ TransferDebit(p)
        \/ TransferInsert(p)
        \/ StatusBegin(p)
        \/ StatusCredit(p)
        \/ StatusInsert(p)
        \/ StatusReverse(p)
        \/ StatusWrite(p)

SpecScenario == Init /\ [][NextScenario]_vars

\* C12: after A's 40.00 transfer of type "Transfer between own accounts" to
\* B's account (the one row that is not flagged internal) and the one status
\* request that sets it to Successful, A's balance is still 60, B's balance
\* is 540 and the ledger holds the +40 row with reference {base}-CR.
C12_Scenario ==
    (/\ nreq.total = 2 /\ last.op = "status" /\ last.code = 200
     /\ Len(txs) >= 1 /\ ~txs[1].isInternal /\ txs[1].amount = -40
     /\ txs[1].status = "Successful")
    => /\ BalanceOf(users, AcctNo("Checking", "A")) = InitialChecking - 40
       /\ BalanceOf(users, AcctNo("Savings", "B")) = InitialSavings + 40
       /\ \E j \in Rows : /\ txs[j].referenceId = CreditRef(txs[1].referenceId)
                          /\ txs[j].amount = 40

C14_CheckOrder ==
    last.op = "transfer" =>
        LET f == last.f
            known == f.valid /\ f.userFound
        IN /\ ~f.valid => (last.code = 400 /\ ~last.mutated)
           /\ (known /\ ~f.pinOk) =>
                 (last.code = 403 /\ last.kind = "pin" /\ ~last.mutated)
           /\ (known /\ f.pinOk /\ f.blocked) =>
                 (last.code = 409 /\ last.kind = "policy" /\ ~last.mutated)
           /\ (known /\ f.pinOk /\ ~f.blocked /\ ~f.srcFound) =>
                 (last.code = 404 /\ last.kind = "nosource" /\ ~last.mutated)
           /\ (known /\ f.pinOk /\ ~f.blocked /\ f.srcFound /\ ~f.enough) =>
                 (last.code = 409 /\ last.kind = "funds" /\ ~last.mutated)

\* a wrong PIN under an active block policy is answered 403
C14_Witness ==
    /\ last.op = "transfer" /\ last.code = 403 /\ last.kind = "pin"
    /\ last.f.valid /\ last.f.blocked /\ ~last.f.pinOk /\ txs = <<>>

\* an active block policy with a source account the user does not hold is
\* answered with the policy conflict
C14_WitnessPolicy ==
    /\ last.op = "transfer" /\ last.code = 409 /\ last.kind = "policy"
    /\ last.f.valid /\ last.f.pinOk /\ last.f.blocked /\ ~last.f.srcFound

InFlightAdjust(p) == proc[p].pc \in {"a_write", "a_insert"}

\* what a committed adjustment has done: the balance has moved by the signed
\* amount, which is up for a credit and down for a debit, no other balance
\* has moved, and the ledger has one more row, of the same signed amount
AdjustEffect(p) ==
    LET l == proc[p]
        n == Len(txs')
        amount == IF l.f.type = "credit" THEN l.finalSignedAmount
                  ELSE -l.finalSignedAmount
    IN /\ amount > 0
       /\ MovedBy(l.account.accountNumber,
                  IF l.f.type = "credit" THEN amount ELSE -amount)
       /\ \A a \in AllAcctNums \ {l.account.accountNumber} :
             BalancesAt(users', a) = BalancesAt(users, a)
       /\ n = Len(txs) + 1
       /\ \A i \in 1..Len(txs) : txs'[i] = txs[i]
       /\ txs'[n].amount = (IF l.f.type = "credit" THEN amount ELSE -amount)
       /\ txs'[n].accountNumber = l.account.accountNumber

\* the answers to balance adjustments: a debit above the balance is refused
\* and changes nothing; a request that is well formed, names an account of
\* the user and is covered by the balance is refused only when the database
\* fails it, whether or not the user's block policy is active
AdjustAnswers ==
    last.op = "adjust" =>
        /\ last.code # 200 => ~last.mutated
        /\ (last.f.valid /\ last.f.found /\ last.f.type = "debit" /\ ~last.f.enough)
              => (last.code = 400 /\ last.kind = "funds")
        /\ (last.f.valid /\ last.f.found /\ (last.f.type = "debit" => last.f.enough))
              => (last.code = 200 \/ last.kind \in {"conflict", "fault", "insertfault"})

\* C15: a balance adjustment commits the balance change and exactly one row
\* of the same signed amount in one step (a credit raises the balance by
\* the amount, a debit lowers it by the amount) or changes nothing; a debit
\* above the balance is refused with no change; the block policy and the
\* PIN of the user play no part.
C15_Adjust ==
    [][/\ \A p \in Procs :
            (InFlightAdjust(p) /\ Steps(p)) =>
                IF AdjustCommit(p) THEN AdjustEffect(p)
                ELSE users' = users /\ txs' = txs
       /\ AdjustAnswers']_vars

C15_Witness ==
    /\ last.op = "adjust" /\ last.code = 200 /\ last.f.type = "debit"
    /\ last.f.blocked /\ last.mutated
    /\ Len(txs) = 1 /\ txs[1].amount = -40
    /\ BalanceOf(users, AcctNo("Checking", "A")) = InitialChecking - 40

C15_WitnessRefused ==
    /\ last.op = "adjust" /\ last.code = 400 /\ last.kind = "funds"
    /\ last.f.type = "debit" /\ ~last.f.enough /\ txs = <<>>

RECURSIVE SumRows(_, _)
SumRows(accountNumber, n) ==
    IF n = 0 THEN 0
    ELSE SumRows(accountNumber, n - 1)
            + (IF txs[n].accountNumber = accountNumber THEN txs[n].amount ELSE 0)

\* the amounts paid out on the check deposits to the account k of the user u
RECURSIVE SumCredits(_, _, _)
SumCredits(u, k, n) ==
    IF n = 0 THEN 0
    ELSE SumCredits(u, k, n - 1)
            + (IF /\ deposits[n].userId = u
                  /\ k \in CurrencyIdx(users[u], deposits[n].currencyCode)
                  /\ \A j \in CurrencyIdx(users[u], deposits[n].currencyCode) : k <= j
               THEN credits[n] * deposits[n].amount ELSE 0)

InFlightReview(p) == proc[p].pc \in {"r_user", "r_save", "r_update"}

\* C19: a rejection whose trimmed notes are shorter than five characters is
\* refused as invalid and changes nothing; no step of any rejection,
\* refused or not, changes a balance.
C19_Decline ==
    [][/\ \A p \in Procs :
            (/\ InFlightReview(p) /\ isRejectedOrFailed(proc[p].newStatus)
             /\ Steps(p)) => users' = users
       /\ (/\ last'.op = "review" /\ isRejectedOrFailed(ToLowerCase(last'.f.status))
           /\ Len(last'.f.trimmedNotes) < MinNotes)
              => /\ last'.code = 400 /\ last'.kind = "notes"
                 /\ (nreq' # nreq => /\ users' = users /\ txs' = txs
                                     /\ deposits' = deposits /\ credits' = credits)
       /\ (/\ last'.op = "review" /\ isRejectedOrFailed(ToLowerCase(last'.f.status))
           /\ last' # last)
              => users' = users]_vars

C19_Witness ==
    /\ last.op = "review" /\ last.code = 400 /\ last.kind = "notes"
    /\ last.f.status = "Declined" /\ Len(last.f.adminNotes) >= MinNotes
    /\ Len(last.f.trimmedNotes) = 2
    /\ Len(deposits) = 1 /\ deposits[1].status = "Pending"

C19_WitnessNotes ==
    /\ last.op = "review" /\ last.code = 500 /\ last.kind = "validation"
    /\ last.f.status = "Declined" /\ Len(last.f.trimmedNotes) >= MinNotes
    /\ deposits[1].status = "Pending" /\ credits[1] = 0

\* ---------------------------------------------------------- registration
Generating(p) == proc[p].pc \in {"g_checking", "g_savings"}

\* the account a call of generateUniqueAccountDetails has just returned
Returned(p) ==
    IF proc[p].pc = "g_checking" THEN proc'[p].checkingAccount
    ELSE proc'[p].savingsAccount

\* one turn of the loop, as the claim has it
GenerateTurn(p) ==
    /\ users' = users
    /\ proc[p].attempts < MAX_ATTEMPTS
    /\ IF proc'[p].pc = proc[p].pc
       THEN \* a collision: counted, and followed by a longer wait
            /\ Holders(users, proc'[p].newAccountNumber) # {}
            /\ proc'[p].attempts = proc[p].attempts + 1
            /\ proc'[p].slept > proc[p].slept
       ELSE IF proc'[p].pc \in {"g_savings", "reg_save"}
       THEN \* a return: nobody held the candidate at this lookup
            Holders(users, Returned(p).accountNumber) = {}
       ELSE \* the failure: the tenth collision, the internal error
            /\ proc[p].attempts = MAX_ATTEMPTS - 1
            /\ last'.op = "register" /\ last'.code = 500 /\ last'.kind = "unique"
            /\ users[proc[p].userIdName] = users'[proc[p].userIdName]

\* C20: generateUniqueAccountDetails ends after at most ten lookups, with a
\* longer wait after each collision; it returns a candidate only when the
\* lookup of that attempt found no holder; after ten collisions it fails,
\* the registration answers with the internal error and no user is stored.
C20_Generate ==
    /\ [][\A p \in Procs : (Generating(p) /\ Steps(p)) => GenerateTurn(p)]_vars
    /\ \A p \in Procs : Generating(p) ~> ~Generating(p)

C20_Witness ==
    /\ last.op = "register" /\ last.code = 500 /\ last.kind = "unique"
    /\ users[last.f.userIdName].state = "none"

C20_WitnessRetry ==
    \E p \in Procs : /\ proc[p].pc = "reg_save"
                     /\ proc[p].attempts = MAX_ATTEMPTS - 1 /\ proc[p].slept = 450

\* the accounts of the collection: the user and the place in its array
Slots == {s \in UserIds \X (1..2) : Live(users, s[1]) /\ s[2] <= Len(users[s[1]].accounts)}

\* C21: no two accounts, of one user or of two, carry the same number,
\* whatever the interleaving of registrations and currency changes, lookups
\* that returned the same candidate to two callers included; a save that
\* would duplicate a number fails and writes nothing.
C21_UniqueNumbers ==
    /\ \A s, t \in Slots :
          s # t => users[s[1]].accounts[s[2]].accountNumber
                      # users[t[1]].accounts[t[2]].accountNumber
    /\ (last.op \in {"register", "update"} /\ last.kind = "duplicate")
          => (last.code = 409 /\ ~last.mutated)

\* two registrations were handed the same candidates; the second save failed
C21_Witness ==
    /\ last.op = "register" /\ last.code = 409 /\ last.kind = "duplicate"
    /\ users[last.f.userIdName].state = "none"
    /\ \E u \in UserIds : Live(users, u)

C21_WitnessUpdate ==
    /\ last.op = "update" /\ last.code = 409 /\ last.kind = "duplicate"
    /\ \A u \in UserIds : Live(users, u)

\* C22: no two stored deposits carry the same depositId, whatever the
\* interleaving of the submissions; of two submissions that computed the same
\* next id at most one is stored, the other fails and stores nothing.
C22_UniqueDepositIds ==
    [][/\ \A d, e \in 1..Len(deposits') :
            d # e => deposits'[d].depositId # deposits'[e].depositId
       /\ \A p \in Procs :
            (proc[p].pc = "d_save" /\ Steps(p)) =>
                IF DepositIdx(proc[p].newDeposit.depositId) # {}
                THEN /\ deposits' = deposits
                     /\ last'.code = 500 /\ last'.kind = "duplicate"
                ELSE \/ deposits' = deposits /\ last'.code = 500
                     \/ deposits' = Append(deposits, proc[p].newDeposit)]_vars

\* two submissions read the same latest deposit; the second save has failed
C22_Witness ==
    /\ last.op = "deposit" /\ last.code = 500 /\ last.kind = "duplicate"
    /\ Len(deposits) = 1 /\ deposits[1].depositId = FirstDepositIdNum

\* ------------------------------------------------------ post-commit work
\* p has started post-commit work in this step
Started(p) == Len(tasks'[p]) > Len(tasks[p])

StartedTask(p) == tasks'[p][Len(tasks'[p])]

\* a credit row of the ledger ts belongs to the row transactionId
CreditRowOf(ts, transactionId) ==
    \E j \in 1..Len(ts) :
        /\ ts[j].referenceId = CreditRef(ts[transactionId].referenceId)
        /\ ts[j].amount > 0

\* the side effects attempted in this step
Attempted == effects' \ effects

\* C23: the audit entry and the emails of a status change or a transfer are
\* started only by the step that commits its database transaction, never by
\* one that aborts it; whatever their outcome they change neither the
\* collections nor the response; a failed audit entry does not stop the
\* emails; the recipient is told only when the commit created a credit leg.
C23_PostCommit ==
    [][/\ \A p \in Procs :
            /\ Started(p) =>
                  /\ txn[p].active /\ ~txn'[p].active
                  /\ TransferCommit(p) \/ StatusCommit(p)
                  /\ last'.code \in {200, 202}
                  /\ txs'[StartedTask(p).transactionId].status =
                        (IF TransferCommit(p) THEN "Processing" ELSE proc[p].newStatus)
                  /\ Len(StartedTask(p).notify) > 1 =>
                        /\ Len(txs') = Len(txs) + 1
                        /\ CreditRowOf(txs', StartedTask(p).transactionId)
            /\ (txn[p].active /\ ~txn'[p].active /\ last'.code >= 400) =>
                  (tasks' = tasks /\ effects' = effects)
       /\ effects \subseteq effects'
       /\ Attempted # {} =>
            /\ users' = users /\ txs' = txs /\ last' = last /\ proc' = proc
            /\ \A e \in Attempted :
                 /\ \E p \in Procs : \E k \in 1..Len(tasks[p]) :
                       /\ tasks[p][k].transactionId = e.transactionId
                       /\ e.kind = "audit" =>
                             /\ tasks[p][k].stage = "audit"
                             /\ tasks'[p][k] = [tasks[p][k] EXCEPT !.stage = "email"]
                 /\ (e.kind = "email" /\ e.to # txs[e.transactionId].userId)
                       => CreditRowOf(txs, e.transactionId)]_vars

\* a completion has told the recipient although its audit entry failed
C23_Witness ==
    /\ \E i \in 1..Len(txs) :
          /\ [kind |-> "audit", transactionId |-> i, to |-> "-", ok |-> FALSE] \in effects
          /\ [kind |-> "email", transactionId |-> i, to |-> "A", ok |-> TRUE] \in effects
          /\ [kind |-> "email", transactionId |-> i, to |-> "B", ok |-> TRUE] \in effects
          /\ txs[i].status = "Successful"
    /\ BalanceOf(users, AcctNo("Savings", "B")) = InitialSavings + 40

\* the email of a committed transfer has failed; the 202 stands
C23_WitnessFailed ==
    /\ [kind |-> "email", transactionId |-> 1, to |-> "A", ok |-> FALSE] \in effects
    /\ ~ [kind |-> "email", transactionId |-> 1, to |-> "A", ok |-> TRUE] \in effects
    /\ last.op = "transfer" /\ last.code = 202 /\ Len(txs) = 1
    /\ BalanceOf(users, AcctNo("Checking", "A")) = InitialChecking - 40

\* ------------------------------------------------------- currency change
\* p's currency change is written: the step that stores the new accounts
RegenerateCommit(p) ==
    /\ proc[p].pc = "u_write" /\ Steps(p)
    /\ proc[p].regenerate /\ last'.code = 200

\* C24: a currency change stores two new accounts that carry the balances
\* of the Checking and the Savings account: whatever has committed on the
\* accounts of the user beside it, the balances after the change are the
\* balances the accounts had without it.
C24_BalancesKept ==
    [][\A p \in Procs :
          RegenerateCommit(p) =>
              /\ Len(users'[proc[p].id].accounts) = 2
              /\ \A type \in AccountTypes :
                    BalanceOfType(users'[proc[p].id], type)
                        = BalanceOfType(users[proc[p].id], type)]_vars

\* C25: once a completion has credited the destination of a debit row, what
\* its reversals have put back on its source and what was credited are
\* together at most the amount debited, whatever status requests are served.
C25_PaidOutOnce ==
    \A i \in Rows :
        (txs[i].amount < 0 /\ moved[i].credited > 0) =>
            moved[i].restored + moved[i].credited <= Abs(txs[i].amount)

\* C26: in every reachable state the balance of each account is its opening
\* balance plus the signed amounts of the ledger rows recorded against its
\* account number.
C26_LedgerMatchesBalance ==
    \A s \in Slots :
        LET account == users[s[1]].accounts[s[2]]
        IN account.balance = InitialBalance(account.accountType)
                                + SumRows(account.accountNumber, Len(txs))

\* a status change of p that is neither the completion of an internal row
\* from Processing, Approved or Pending nor the reversal of a debit whose
\* status is neither Successful nor a reversal status
Neutral(p) ==
    LET l == proc[p]
        t == l.transaction
    IN /\ ~(/\ l.newStatus = "Successful"
            /\ t.isInternal
            /\ l.currentStatus \in {"Processing", "Approved", "Pending"})
       /\ ~(/\ l.newStatus \in {"Refunded", "Failed", "Declined"}
            /\ t.amount < 0
            /\ l.currentStatus \notin {"Successful", "Refunded", "Failed", "Declined"})

\* C27: a committed status change that is neither a completion nor a reversal
\* leaves every user document as it was, adds no ledger row and changes, on
\* the one row it names, only the status and lastUpdatedByAdmin.
C27_NeutralTransition ==
    [][\A p \in Procs :
          (StatusCommit(p) /\ Neutral(p)) =>
              /\ users' = users
              /\ Len(txs') = Len(txs)
              /\ \A i \in Rows :
                    txs'[i] = IF i = proc[p].transactionId
                              THEN [txs[i] EXCEPT !.status = proc[p].newStatus,
                                                  !.lastUpdatedByAdmin = "admin"]
                              ELSE txs[i]]_vars

\* a debit already in a reversal status has been moved to the other one
C27_Witness ==
    /\ last.op = "status" /\ last.code = 200
    /\ last.kind \in {"Refunded", "Failed", "Declined"}
    /\ last.f.final /\ ~last.f.reversing /\ ~last.f.same
    /\ \E i \in Rows : txs[i].amount < 0 /\ txs[i].status = last.kind
                        /\ moved[i].restored = -txs[i].amount

\* an internal debit in Processing has been moved to Delivered
C27_WitnessDelivered ==
    /\ last.op = "status" /\ last.code = 200 /\ last.kind = "Delivered"
    /\ \E i \in Rows : /\ txs[i].status = "Delivered" /\ txs[i].isInternal
                       /\ moved[i] = [restored |-> 0, credited |-> 0]

\* C28: a completion request that meets a transfer in Processing is answered
\* 200 and leaves the debit row Successful.
C28_CompletesProcessing ==
    (last.op = "complete" /\ last.f.found /\ last.f.was = "Processing")
    => (last.code = 200 /\ txs[last.f.transactionId].status = "Successful")

\* a completion request that meets a row already Successful or Failed is
\* answered 409 and writes nothing
C28_FinalizedConflict ==
    (last.op = "complete" /\ last.f.found /\ last.f.was \in {"Successful", "Failed"})
    => (last.code = 409 /\ ~last.mutated)

\* C29: in every reachable state an internal debit row whose status is
\* Successful has a credit row under its reference followed by -CR, and its
\* destination was credited by the absolute value of its amount.
C29_SuccessfulIsPaired ==
    \A i \in Rows :
        (txs[i].isInternal /\ txs[i].amount < 0 /\ txs[i].status = "Successful") =>
            /\ \E j \in Rows : txs[j].referenceId = CreditRef(txs[i].referenceId)
            /\ moved[i].credited = Abs(txs[i].amount)

\* C30: a handler that started a database session has, when it answers,
\* ended it exactly once and left its transaction committed or aborted.
C30_SessionsClosed ==
    last.session.started =>
        /\ last.session.ended = 1
        /\ last.session.state \in {"committed", "aborted"}
====
